---- MODULE Spec2Model ----
(***************************************************************************)
(* A model of the version-ordering and installer-normalisation core of     *)
(* winget-types: Version / VersionPart (src/shared/version), PackageVersion*)
(* (src/shared/package_version.rs), PackageIdentifier                      *)
(* (src/shared/package_identifier.rs), InstallerManifest::optimize and     *)
(* Installer::merge_with (src/installer), InstallerSwitches and            *)
(* InstallerSwitch (src/installer/switches), and Market and Markets        *)
(* (src/installer/market).                                                 *)
(*                                                                         *)
(* Strings are sequences of one-character strings, so that trimming,       *)
(* searching, splitting and ASCII case folding are computed as the code    *)
(* computes them.                                                          *)
(***************************************************************************)
EXTENDS Integers, Sequences, FiniteSets, TLC

VARIABLES
    pc,        \* position of the driver of the specification in use
    sa, sb,    \* the two input strings handed to Version::new
    va, vb,    \* the Versions built from sa and sb ("none" before)
    manifest,  \* the InstallerManifest that optimize works on
    before,    \* the manifest as it was before the latest call of optimize
    calls,     \* the number of calls of optimize so far
    receiver,  \* the Installer merge_with is called on (self)
    argument,  \* the Installer handed to merge_with (other)
    merged,    \* the Installer returned by merge_with ("none" before)
    version,   \* the Version closest is called on (self)
    versions,  \* the candidates handed to closest, in iteration order
    chosen,    \* what closest returned ("none" before)
    text,      \* the string handed to PackageVersion::new
    outcome,   \* the Result that PackageVersion::new returned ("none" before)
    triple,    \* three VersionParts to be compared with one another
    compared,  \* their orderings and equalities, pair by pair ("none" before)
    installerSwitches, \* the InstallerSwitches is_empty is called on
    isEmpty,   \* what is_empty returned ("none" before)
    identifier, \* the string handed to PackageIdentifier::new
    verdict,   \* the Result that PackageIdentifier::new returned ("none" before)
    markets,   \* the Markets value: its kind and its set of markets
    previous,  \* the Markets value as it was before the latest call
    returned,  \* the latest call, its argument and what it returned ("none" before)
    steps,     \* the number of calls of add, remove and clear so far
    fragment,  \* the string handed to VersionPart::from
    parsed     \* the VersionPart that from returned ("none" before)

vars == <<pc, sa, sb, va, vb, manifest, before, calls, receiver, argument, merged,
          version, versions, chosen,
          text, outcome,
          triple, compared,
          installerSwitches, isEmpty,
          identifier, verdict,
          markets, previous, returned, steps,
          fragment, parsed>>

versionVars == <<sa, sb, va, vb>>

optimizeVars == <<manifest, before, calls>>

mergeVars == <<receiver, argument, merged>>

closestVars == <<version, versions, chosen>>

packageVersionVars == <<text, outcome>>

partVars == <<triple, compared>>

switchesVars == <<installerSwitches, isEmpty>>

identifierVars == <<identifier, verdict>>

marketsVars == <<markets, previous, returned, steps>>

parseVars == <<fragment, parsed>>

\* The variables of the specifications other than the one in use, and their
\* values while they are out of use
exceptVersionVars == <<optimizeVars, mergeVars, closestVars, packageVersionVars, partVars, switchesVars, identifierVars, marketsVars, parseVars>>

exceptOptimizeVars == <<versionVars, mergeVars, closestVars, packageVersionVars, partVars, switchesVars, identifierVars, marketsVars, parseVars>>

exceptMergeVars == <<versionVars, optimizeVars, closestVars, packageVersionVars, partVars, switchesVars, identifierVars, marketsVars, parseVars>>

exceptClosestVars == <<versionVars, optimizeVars, mergeVars, packageVersionVars, partVars, switchesVars, identifierVars, marketsVars, parseVars>>

exceptPackageVersionVars == <<versionVars, optimizeVars, mergeVars, closestVars, partVars, switchesVars, identifierVars, marketsVars, parseVars>>

exceptPartVars == <<versionVars, optimizeVars, mergeVars, closestVars, packageVersionVars, switchesVars, identifierVars, marketsVars, parseVars>>

exceptSwitchesVars == <<versionVars, optimizeVars, mergeVars, closestVars, packageVersionVars, partVars, identifierVars, marketsVars, parseVars>>

exceptIdentifierVars == <<versionVars, optimizeVars, mergeVars, closestVars, packageVersionVars, partVars, switchesVars, marketsVars, parseVars>>

exceptMarketsVars == <<versionVars, optimizeVars, mergeVars, closestVars, packageVersionVars, partVars, switchesVars, identifierVars, parseVars>>

exceptParseVars == <<versionVars, optimizeVars, mergeVars, closestVars, packageVersionVars, partVars, switchesVars, identifierVars, marketsVars>>

VersionUnused == sa = "none" /\ sb = "none" /\ va = "none" /\ vb = "none"

OptimizeUnused == manifest = "none" /\ before = "none" /\ calls = 0

MergeUnused == receiver = "none" /\ argument = "none" /\ merged = "none"

ClosestUnused == version = "none" /\ versions = "none" /\ chosen = "none"

PackageVersionUnused == text = "none" /\ outcome = "none"

PartUnused == triple = "none" /\ compared = "none"

SwitchesUnused == installerSwitches = "none" /\ isEmpty = "none"

IdentifierUnused == identifier = "none" /\ verdict = "none"

MarketsUnused == markets = "none" /\ previous = "none" /\ returned = "none" /\ steps = 0

ParseUnused == fragment = "none" /\ parsed = "none"

(***************************************************************************)
(* Characters                                                              *)
(***************************************************************************)

\* The printable ASCII characters of codes 32 (space) to 95, in code order.
AsciiLow ==
    <<" ", "!", "\"", "#", "$", "%", "&", "'", "(", ")", "*", "+", ",", "-", ".", "/",
      "0", "1", "2", "3", "4", "5", "6", "7", "8", "9", ":", ";", "<", "=", ">", "?",
      "@", "A", "B", "C", "D", "E", "F", "G", "H", "I", "J", "K", "L", "M", "N", "O",
      "P", "Q", "R", "S", "T", "U", "V", "W", "X", "Y", "Z", "[", "\\", "]", "^", "_">>

\* The printable ASCII characters of codes 97 to 126, in code order.
AsciiHigh ==
    <<"a", "b", "c", "d", "e", "f", "g", "h", "i", "j", "k", "l", "m", "n", "o",
      "p", "q", "r", "s", "t", "u", "v", "w", "x", "y", "z", "{", "|", "}", "~">>

\* The characters that have no printable ASCII form, written by name, with
\* their code points: U+0000, U+0009, U+007F and U+1F980 (the crab of the
\* tests of PackageVersion, 4 bytes in UTF-8 and 2 units in UTF-16)
NamedChars == { <<"NUL", 0>>, <<"TAB", 9>>, <<"DEL", 127>>, <<"CRAB", 129408>> }

Chars ==
    {AsciiLow[i] : i \in 1..Len(AsciiLow)} \cup {AsciiHigh[i] : i \in 1..Len(AsciiHigh)}
        \cup {named[1] : named \in NamedChars}

\* The code point of a character.
Code ==
    [c \in Chars |->
        IF \E i \in 1..Len(AsciiLow) : AsciiLow[i] = c
        THEN 31 + (CHOOSE i \in 1..Len(AsciiLow) : AsciiLow[i] = c)
        ELSE IF \E i \in 1..Len(AsciiHigh) : AsciiHigh[i] = c
        THEN 96 + (CHOOSE i \in 1..Len(AsciiHigh) : AsciiHigh[i] = c)
        ELSE (CHOOSE named \in NamedChars : named[1] = c)[2]]

\* char::is_ascii_digit
IsAsciiDigit(c) == Code[c] >= 48 /\ Code[c] <= 57

\* char::is_whitespace, on the characters of the model
IsWhitespace(c) == c = " " \/ c = "TAB"

\* char::is_control: the general category Cc, U+0000..U+001F and U+007F..U+009F
IsControl(c) == Code[c] <= 31 \/ (Code[c] >= 127 /\ Code[c] <= 159)

\* char::len_utf8
LenUtf8(c) ==
    IF Code[c] < 128 THEN 1 ELSE IF Code[c] < 2048 THEN 2 ELSE IF Code[c] < 65536 THEN 3 ELSE 4

\* char::len_utf16
LenUtf16(c) == IF Code[c] < 65536 THEN 1 ELSE 2

\* char::to_ascii_lowercase
ToAsciiLowercase(c) == IF Code[c] >= 65 /\ Code[c] <= 90 THEN AsciiHigh[Code[c] + 32 - 96] ELSE c

(***************************************************************************)
(* Strings                                                                 *)
(***************************************************************************)

\* str::eq_ignore_ascii_case
EqIgnoreAsciiCase(s, t) ==
    /\ Len(s) = Len(t)
    /\ \A i \in 1..Len(s) : ToAsciiLowercase(s[i]) = ToAsciiLowercase(t[i])

\* str::find with a predicate: the 0-based index of the first digit, -1 for None
FindDigit(s) ==
    IF \E i \in 1..Len(s) : IsAsciiDigit(s[i])
    THEN (CHOOSE i \in 1..Len(s) : IsAsciiDigit(s[i]) /\ \A j \in 1..(i - 1) : ~IsAsciiDigit(s[j])) - 1
    ELSE -1

\* str::find with a predicate: the 0-based index of the first non-digit, -1 for None
FindNonDigit(s) ==
    IF \E i \in 1..Len(s) : ~IsAsciiDigit(s[i])
    THEN (CHOOSE i \in 1..Len(s) : ~IsAsciiDigit(s[i]) /\ \A j \in 1..(i - 1) : IsAsciiDigit(s[j])) - 1
    ELSE -1

\* str::repeat, of a single character
Repeat(char, n) == [i \in 1..n |-> char]

\* Result::Err and Result::Ok
Err(error) == [tag |-> "Err", error |-> error]

Ok(value) == [tag |-> "Ok", value |-> value]

\* str::find(char): the 0-based index of the first occurrence of c, -1 for None
FindChar(s, c) ==
    IF \E i \in 1..Len(s) : s[i] = c
    THEN (CHOOSE i \in 1..Len(s) : s[i] = c /\ \A j \in 1..(i - 1) : s[j] # c) - 1
    ELSE -1

\* str::trim: drops the leading and the trailing whitespace
Trim(s) ==
    IF \A i \in 1..Len(s) : IsWhitespace(s[i])
    THEN <<>>
    ELSE LET first == CHOOSE i \in 1..Len(s) :
                          ~IsWhitespace(s[i]) /\ \A j \in 1..(i - 1) : IsWhitespace(s[j])
             last  == CHOOSE i \in 1..Len(s) :
                          ~IsWhitespace(s[i]) /\ \A j \in (i + 1)..Len(s) : IsWhitespace(s[j])
         IN  SubSeq(s, first, last)

\* str::split(char): the segments between the occurrences of c (never empty:
\* a string without c is its own single segment)
RECURSIVE Split(_, _)
Split(s, c) ==
    LET p == FindChar(s, c)
    IN  IF p = -1
        THEN <<s>>
        ELSE <<SubSeq(s, 1, p)>> \o Split(SubSeq(s, p + 2, Len(s)), c)

\* Ord for str: byte-wise lexicographic comparison
RECURSIVE StrCmp(_, _)
StrCmp(s, t) ==
    IF s = <<>> /\ t = <<>> THEN "Equal"
    ELSE IF s = <<>> THEN "Less"
    ELSE IF t = <<>> THEN "Greater"
    ELSE IF Code[Head(s)] < Code[Head(t)] THEN "Less"
    ELSE IF Code[Head(s)] > Code[Head(t)] THEN "Greater"
    ELSE StrCmp(Tail(s), Tail(t))

\* Ord for integers
IntCmp(m, n) == IF m < n THEN "Less" ELSE IF m > n THEN "Greater" ELSE "Equal"

(***************************************************************************)
(* u64 parsing                                                             *)
(***************************************************************************)

\* u64::MAX = 18446744073709551615, as its decimal digits
U64MaxDigits ==
    <<"1", "8", "4", "4", "6", "7", "4", "4", "0", "7",
      "3", "7", "0", "9", "5", "5", "1", "6", "1", "5">>

RECURSIVE StripLeadingZeros(_)
StripLeadingZeros(ds) ==
    IF ds # <<>> /\ Head(ds) = "0" THEN StripLeadingZeros(Tail(ds)) ELSE ds

RECURSIVE DigitsValue(_)
DigitsValue(ds) ==
    IF ds = <<>> THEN 0
    ELSE 10 * DigitsValue(SubSeq(ds, 1, Len(ds) - 1)) + (Code[ds[Len(ds)]] - 48)

\* A slip of the test: the zeros a run starts with count as digits of the value
FitsU64WithZeros(ds) ==
    \/ Len(ds) < Len(U64MaxDigits)
    \/ Len(ds) = Len(U64MaxDigits) /\ StrCmp(ds, U64MaxDigits) # "Greater"

\* Does a run of digits denote a value that fits in a u64?
FitsU64(ds) ==
    LET sig == StripLeadingZeros(ds)
    IN  \/ Len(sig) < Len(U64MaxDigits)
        \/ Len(sig) = Len(U64MaxDigits) /\ StrCmp(sig, U64MaxDigits) # "Greater"

\* str::parse::<u64>().unwrap_or_default() on a run of ASCII digits: the empty
\* run and a value that does not fit are parse errors, which default to 0
ParseU64OrDefault(ds) ==
    IF ds = <<>> \/ ~FitsU64(ds) THEN 0 ELSE DigitsValue(StripLeadingZeros(ds))

(***************************************************************************)
(* VersionPart                                                             *)
(***************************************************************************)

\* VersionPart::new
VersionPartNew(number, supplement) == [number |-> number, supplement |-> supplement]

\* VersionPart::DEFAULT
VersionPartDefault == VersionPartNew(0, <<>>)

\* VersionPart::is_droppable
IsDroppable(part) == part.number = 0 /\ part.supplement = <<>>

\* impl From<&str> for VersionPart
VersionPartFrom(value) ==
    LET part  == Trim(value)
        found == FindNonDigit(part)
        supplement_start_index == IF found = -1 THEN Len(part) ELSE found
        number_str == SubSeq(part, 1, supplement_start_index)
        supplement == SubSeq(part, supplement_start_index + 1, Len(part))
    IN  VersionPartNew(ParseU64OrDefault(number_str), supplement)

\* derive(PartialEq) for VersionPart
VersionPartEq(part, other) ==
    part.number = other.number /\ part.supplement = other.supplement

\* A slip of the ordering: the supplements are compared as strings throughout,
\* which puts the empty one first
VersionPartCmpDerived(part, other) ==
    IF IntCmp(part.number, other.number) # "Equal"
    THEN IntCmp(part.number, other.number)
    ELSE StrCmp(part.supplement, other.supplement)

\* impl Ord for VersionPart
VersionPartCmp(part, other) ==
    LET byNumber == IntCmp(part.number, other.number)
    IN  IF byNumber # "Equal" THEN byNumber
        ELSE IF part.supplement = <<>> /\ other.supplement = <<>> THEN "Equal"
        ELSE IF part.supplement = <<>> THEN "Greater"
        ELSE IF other.supplement = <<>> THEN "Less"
        ELSE StrCmp(part.supplement, other.supplement)

(***************************************************************************)
(* Version                                                                 *)
(***************************************************************************)

\* Version::SEPARATOR
SEPARATOR == "."

\* The parts of a version string: split on the separator, one VersionPart per segment
PartsOf(trimmed) ==
    LET segments == Split(trimmed, SEPARATOR)
    IN  [i \in 1..Len(segments) |-> VersionPartFrom(segments[i])]

\* parts.iter().rposition(|part| !part.is_droppable()), then truncate(pos + 1),
\* or clear() when every part is droppable
DropTrailing(parts) ==
    IF \E i \in 1..Len(parts) : ~IsDroppable(parts[i])
    THEN LET last == CHOOSE i \in 1..Len(parts) :
                         ~IsDroppable(parts[i]) /\ \A j \in (i + 1)..Len(parts) : IsDroppable(parts[j])
         IN  SubSeq(parts, 1, last)
    ELSE <<>>

\* A slip of Version::new: the leading non-digits go whenever there is a digit
VersionNewAlwaysStrip(input) ==
    LET trimmed0  == Trim(input)
        digit_pos == FindDigit(trimmed0)
        trimmed   == IF digit_pos # -1
                     THEN SubSeq(trimmed0, digit_pos + 1, Len(trimmed0))
                     ELSE trimmed0
    IN  [raw |-> trimmed, parts |-> DropTrailing(PartsOf(trimmed))]

\* Version::new
VersionNew(input) ==
    LET trimmed0      == Trim(input)
        digit_pos     == FindDigit(trimmed0)
        separator_pos == FindChar(trimmed0, SEPARATOR)
        trimmed       == IF digit_pos # -1 /\ (separator_pos = -1 \/ digit_pos < separator_pos)
                         THEN SubSeq(trimmed0, digit_pos + 1, Len(trimmed0))
                         ELSE trimmed0
    IN  [raw |-> trimmed, parts |-> DropTrailing(PartsOf(trimmed))]

LATEST == <<"l", "a", "t", "e", "s", "t">>

UNKNOWN == <<"u", "n", "k", "n", "o", "w", "n">>

\* Version::is_latest
IsLatest(v) == EqIgnoreAsciiCase(v.raw, LATEST)

\* Version::is_unknown
IsUnknown(v) == EqIgnoreAsciiCase(v.raw, UNKNOWN)

\* impl PartialEq for Version
VersionEq(v, other) ==
    \/ IsLatest(v) /\ IsLatest(other)
    \/ IsUnknown(v) /\ IsUnknown(other)
    \/ v.parts = other.parts

\* impl Hash for Version: the data fed to the hasher
VersionHash(v) == v.parts

\* The parts branch of Version::cmp: zip_longest, a missing part being compared
\* as VersionPart::DEFAULT, then the first ordering that is not Equal
RECURSIVE ZipLongestCmp(_, _, _)
ZipLongestCmp(parts, other_parts, i) ==
    IF i > Len(parts) /\ i > Len(other_parts) THEN "Equal"
    ELSE LET ordering ==
                 IF i <= Len(parts) /\ i <= Len(other_parts)
                 THEN VersionPartCmp(parts[i], other_parts[i])
                 ELSE IF i <= Len(parts)
                 THEN VersionPartCmp(parts[i], VersionPartDefault)
                 ELSE VersionPartCmp(VersionPartDefault, other_parts[i])
         IN  IF ordering # "Equal" THEN ordering
             ELSE ZipLongestCmp(parts, other_parts, i + 1)

\* A slip of Version::cmp: zip instead of zip_longest, the longer tail ignored
RECURSIVE ZipShortestCmp(_, _, _)
ZipShortestCmp(parts, other_parts, i) ==
    IF i > Len(parts) \/ i > Len(other_parts) THEN "Equal"
    ELSE IF VersionPartCmp(parts[i], other_parts[i]) # "Equal"
    THEN VersionPartCmp(parts[i], other_parts[i])
    ELSE ZipShortestCmp(parts, other_parts, i + 1)

VersionCmpZipShortest(v, other) ==
    IF IsLatest(v) /\ IsLatest(other) THEN "Equal"
    ELSE IF IsLatest(v) THEN "Greater"
    ELSE IF IsLatest(other) THEN "Less"
    ELSE IF IsUnknown(v) /\ IsUnknown(other) THEN "Equal"
    ELSE IF IsUnknown(v) THEN "Less"
    ELSE IF IsUnknown(other) THEN "Greater"
    ELSE ZipShortestCmp(v.parts, other.parts, 1)

\* impl Ord for Version
VersionCmp(v, other) ==
    IF IsLatest(v) /\ IsLatest(other) THEN "Equal"
    ELSE IF IsLatest(v) THEN "Greater"
    ELSE IF IsLatest(other) THEN "Less"
    ELSE IF IsUnknown(v) /\ IsUnknown(other) THEN "Equal"
    ELSE IF IsUnknown(v) THEN "Less"
    ELSE IF IsUnknown(other) THEN "Greater"
    ELSE ZipLongestCmp(v.parts, other.parts, 1)

\* impl PartialOrd for Version: Some(self.cmp(other))
VersionPartialCmp(v, other) == <<"Some", VersionCmp(v, other)>>

\* The operators <, > that PartialOrd provides from partial_cmp
VersionLt(v, other) == VersionPartialCmp(v, other) = <<"Some", "Less">>

VersionGt(v, other) == VersionPartialCmp(v, other) = <<"Some", "Greater">>

(***************************************************************************)
(* SpecVersion: two strings are drawn, and Versions are built from them    *)
(***************************************************************************)

\* The pieces the input strings are made of
Tokens ==
    { LATEST,
      <<"L", "A", "T", "E", "S", "T">>,
      UNKNOWN,
      <<"0">>, <<"1">>, <<".">>, <<" ">> }

\* The largest number of pieces in an input string
MaxTokens == 2

RECURSIVE Concatenations(_)
Concatenations(n) ==
    IF n = 0 THEN {<<>>}
    ELSE LET shorter == Concatenations(n - 1)
         IN  shorter \cup {s \o t : s \in shorter, t \in Tokens}

Inputs == Concatenations(MaxTokens)

DotZero == <<".", "0">>

InitVersion ==
    /\ pc = "input"
    /\ sa \in Inputs
    /\ sb \in Inputs
    /\ va = "none"
    /\ vb = "none"
    /\ OptimizeUnused /\ MergeUnused /\ ClosestUnused /\ PackageVersionUnused /\ PartUnused /\ SwitchesUnused /\ IdentifierUnused /\ MarketsUnused /\ ParseUnused

\* Version::new on each of the two strings
NewPair ==
    /\ pc = "input"
    /\ va' = VersionNew(sa)
    /\ vb' = VersionNew(sb)
    /\ pc' = "parsed"
    /\ UNCHANGED <<sa, sb, exceptVersionVars>>

\* Version::new on a string and on the same string with k trailing ".0" appended
NewWithTrailingZeros ==
    /\ pc = "input"
    /\ \E suffix \in {DotZero, DotZero \o DotZero} :
           /\ sb' = sa \o suffix
           /\ va' = VersionNew(sa)
           /\ vb' = VersionNew(sa \o suffix)
    /\ pc' = "parsed"
    /\ UNCHANGED <<sa, exceptVersionVars>>

NextVersion == NewPair \/ NewWithTrailingZeros

SpecVersion == InitVersion /\ [][NextVersion]_vars

----
\* C1: for all Versions a and b exactly one of a < b, a == b, a > b holds, and
\* cmp(a, b) equals partial_cmp(a, b).
C1_TotalOrderConsistent ==
    pc = "parsed" =>
        LET lt == VersionLt(va, vb)
            eq == VersionEq(va, vb)
            gt == VersionGt(va, vb)
        IN  /\ lt \/ eq \/ gt
            /\ ~(lt /\ eq) /\ ~(eq /\ gt) /\ ~(lt /\ gt)
            /\ VersionPartialCmp(va, vb) = <<"Some", VersionCmp(va, vb)>>

\* The part of v at 1-based position i, VersionPart::DEFAULT past the end
PaddedPart(v, i) == IF i <= Len(v.parts) THEN v.parts[i] ELSE VersionPartDefault

\* The positions at which the padded parts of two versions differ
DifferingPositions(v, other) ==
    LET n == IF Len(v.parts) >= Len(other.parts) THEN Len(v.parts) ELSE Len(other.parts)
    IN  {i \in 1..n : PaddedPart(v, i) # PaddedPart(other, i)}

\* C2: cmp puts `latest` above every version that is not `latest` and equal to
\* another `latest`, `unknown` below every version that is not `unknown` and
\* equal to another `unknown`, and orders any two other versions by the first
\* position at which their parts, padded with VersionPart::DEFAULT, differ
\* (Equal when none differs).
C2_CmpOrdering ==
    pc = "parsed" =>
        LET c == VersionCmp(va, vb)
            d == DifferingPositions(va, vb)
        IN  /\ IsLatest(va) /\ IsLatest(vb) => c = "Equal"
            /\ IsLatest(va) /\ ~IsLatest(vb) => c = "Greater"
            /\ IsUnknown(va) /\ IsUnknown(vb) => c = "Equal"
            /\ IsUnknown(va) /\ ~IsUnknown(vb) => c = "Less"
            /\ ~IsLatest(va) /\ ~IsLatest(vb) /\ ~IsUnknown(va) /\ ~IsUnknown(vb) =>
                   IF d = {}
                   THEN c = "Equal"
                   ELSE LET first == CHOOSE i \in d : \A j \in d : i <= j
                        IN  /\ c = VersionPartCmp(PaddedPart(va, first), PaddedPart(vb, first))
                            /\ c # "Equal"

\* Two versions that are no sentinels, the first one shorter, equal wherever
\* the first has a part, and so ordered by a position that is padded.
C2_Witness ==
    /\ pc = "parsed"
    /\ ~IsLatest(va) /\ ~IsLatest(vb) /\ ~IsUnknown(va) /\ ~IsUnknown(vb)
    /\ Len(va.parts) < Len(vb.parts)
    /\ DifferingPositions(va, vb) # {}
    /\ \A i \in DifferingPositions(va, vb) : i > Len(va.parts)
    /\ VersionCmp(va, vb) = "Less"

\* C3: for every string s, Version::new(s) equals Version::new(s + ".0") and
\* Version::new(s + ".0.0"), and cmp between them is Equal.
C3_TrailingZerosIgnored ==
    pc = "parsed" /\ sb \in {sa \o DotZero, sa \o DotZero \o DotZero} =>
        /\ VersionEq(va, vb)
        /\ VersionCmp(va, vb) = "Equal"

\* C4: versions that are equal feed identical data to the hasher.
C4_HashConsistentWithEq ==
    pc = "parsed" /\ VersionEq(va, vb) => VersionHash(va) = VersionHash(vb)

(***************************************************************************)
(* Installer and InstallerManifest                                         *)
(*                                                                         *)
(* The records carry one field of each kind the two algorithms treat       *)
(* differently: locale and scope (optional values), architecture (required,*)
(* in no key list), switches.silent (optimized, merged by appending),      *)
(* switches.custom (not optimized, merged by appending) and                *)
(* apps_and_features_entries (a list whose entries hold a Version). The    *)
(* manifest also carries package_identifier (in no key list) and           *)
(* manifest_version.                                                       *)
(* Option<T> is a sequence: None is <<>>, Some(x) is <<x>>.                *)
(***************************************************************************)

None == <<>>

Some(x) == <<x>>

\* Ordering::then
Then(ordering, next) == IF ordering # "Equal" THEN ordering ELSE next

\* The derived Ord of Option<T>, given the ordering of the two values when
\* both are Some: None is less than every Some
OptionCmp(a, b, ordering) ==
    IF a = None /\ b = None THEN "Equal"
    ELSE IF a = None THEN "Less"
    ELSE IF b = None THEN "Greater"
    ELSE ordering

\* enum Architecture, in declaration order
Architectures == <<"X86", "X64", "Arm", "Arm64", "Neutral">>

\* #[default] Neutral
ArchitectureDefault == "Neutral"

\* The derived Ord of Architecture
ArchitectureCmp(a, b) ==
    IntCmp(CHOOSE i \in 1..Len(Architectures) : Architectures[i] = a,
           CHOOSE i \in 1..Len(Architectures) : Architectures[i] = b)

\* enum Scope, in declaration order
Scopes == <<"User", "Machine">>

\* The derived Ord of Scope
ScopeCmp(a, b) ==
    IntCmp(CHOOSE i \in 1..Len(Scopes) : Scopes[i] = a,
           CHOOSE i \in 1..Len(Scopes) : Scopes[i] = b)

\* impl Ord for LanguageTag: other.0.total_cmp(&self.0)
LanguageTagCmp(tag, other) == StrCmp(other, tag)

\* The derived Ord of Option<LanguageTag>
OptionLanguageTagCmp(a, b) ==
    OptionCmp(a, b, IF a # None /\ b # None THEN LanguageTagCmp(a[1], b[1]) ELSE "Equal")

\* The derived Ord of Option<Scope>
OptionScopeCmp(a, b) ==
    OptionCmp(a, b, IF a # None /\ b # None THEN ScopeCmp(a[1], b[1]) ELSE "Equal")

\* The derived Ord of InstallerSwitch: SmallVec<[CompactString; 2]>, lexicographic
RECURSIVE SwitchCmp(_, _)
SwitchCmp(switch, other) ==
    IF switch = <<>> /\ other = <<>> THEN "Equal"
    ELSE IF switch = <<>> THEN "Less"
    ELSE IF other = <<>> THEN "Greater"
    ELSE Then(StrCmp(Head(switch), Head(other)), SwitchCmp(Tail(switch), Tail(other)))

\* The derived Ord of Option<SilentSwitch>, Option<CustomSwitch>
OptionSwitchCmp(a, b) ==
    OptionCmp(a, b, IF a # None /\ b # None THEN SwitchCmp(a[1], b[1]) ELSE "Equal")

\* The derived Ord of InstallerSwitches
SwitchesCmp(switches, other) ==
    Then(OptionSwitchCmp(switches.silent, other.silent),
    Then(OptionSwitchCmp(switches.silent_with_progress, other.silent_with_progress),
    Then(OptionSwitchCmp(switches.interactive, other.interactive),
    Then(OptionSwitchCmp(switches.install_location, other.install_location),
    Then(OptionSwitchCmp(switches.log, other.log),
    Then(OptionSwitchCmp(switches.upgrade, other.upgrade),
    Then(OptionSwitchCmp(switches.custom, other.custom),
         OptionSwitchCmp(switches.repair, other.repair))))))))

\* InstallerSwitches::DEFAULT
SwitchesDefault ==
    [silent |-> None, silent_with_progress |-> None, interactive |-> None,
     install_location |-> None, log |-> None, upgrade |-> None,
     custom |-> None, repair |-> None]

\* InstallerSwitches::is_empty
SwitchesIsEmpty(switches) ==
    /\ switches.silent = None
    /\ switches.silent_with_progress = None
    /\ switches.interactive = None
    /\ switches.install_location = None
    /\ switches.log = None
    /\ switches.upgrade = None
    /\ switches.custom = None

\* The derived PartialEq of AppsAndFeaturesEntry
EntryEq(entry, other) ==
    \/ entry.display_version = None /\ other.display_version = None
    \/ /\ entry.display_version # None
       /\ other.display_version # None
       /\ VersionEq(entry.display_version[1], other.display_version[1])

\* The derived Ord of AppsAndFeaturesEntry
EntryCmp(entry, other) ==
    OptionCmp(entry.display_version, other.display_version,
              IF entry.display_version # None /\ other.display_version # None
              THEN VersionCmp(entry.display_version[1], other.display_version[1])
              ELSE "Equal")

\* PartialEq of Vec<AppsAndFeaturesEntry>
EntriesEq(entries, other) ==
    /\ Len(entries) = Len(other)
    /\ \A i \in 1..Len(entries) : EntryEq(entries[i], other[i])

\* Ord of Vec<AppsAndFeaturesEntry>: lexicographic
RECURSIVE EntriesCmp(_, _)
EntriesCmp(entries, other) ==
    IF entries = <<>> /\ other = <<>> THEN "Equal"
    ELSE IF entries = <<>> THEN "Less"
    ELSE IF other = <<>> THEN "Greater"
    ELSE Then(EntryCmp(Head(entries), Head(other)), EntriesCmp(Tail(entries), Tail(other)))

\* Installer::default()
InstallerDefault ==
    [ locale                    |-> None,
      architecture              |-> ArchitectureDefault,
      scope                     |-> None,
      switches                  |-> SwitchesDefault,
      apps_and_features_entries |-> <<>> ]

\* The derived PartialEq of Installer
InstallerEq(installer, other) ==
    /\ installer.locale = other.locale
    /\ installer.architecture = other.architecture
    /\ installer.scope = other.scope
    /\ installer.switches = other.switches
    /\ EntriesEq(installer.apps_and_features_entries, other.apps_and_features_entries)

\* The derived Ord of Installer: the fields in declaration order
InstallerCmp(installer, other) ==
    Then(OptionLanguageTagCmp(installer.locale, other.locale),
    Then(ArchitectureCmp(installer.architecture, other.architecture),
    Then(OptionScopeCmp(installer.scope, other.scope),
    Then(SwitchesCmp(installer.switches, other.switches),
         EntriesCmp(installer.apps_and_features_entries, other.apps_and_features_entries)))))

\* ManifestVersion::DEFAULT
ManifestVersionDefault == <<1, 10, 0>>

\* InstallerManifest::default()
ManifestDefault ==
    [ package_identifier        |-> <<>>,
      locale                    |-> None,
      scope                     |-> None,
      switches                  |-> SwitchesDefault,
      apps_and_features_entries |-> <<>>,
      installers                |-> <<>>,
      manifest_version          |-> ManifestVersionDefault ]

\* The keys of the two macros, written as the paths the macros take
\* ($($field).+): reading a key of an Installer or of an InstallerManifest
Get(record, key) ==
    CASE key = "switches.silent" -> record.switches.silent
      [] key = "switches.custom" -> record.switches.custom
      [] OTHER -> record[key]

\* Assigning a key of an Installer or of an InstallerManifest
Set(record, key, value) ==
    CASE key = "switches.silent" -> [record EXCEPT !.switches.silent = value]
      [] key = "switches.custom" -> [record EXCEPT !.switches.custom = value]
      [] OTHER -> [record EXCEPT ![key] = value]

\* default(&field): T::default() of the key's type
KeyDefault(key) == Get(InstallerDefault, key)

\* PartialEq of the key's type
KeyEq(key, value, other) ==
    IF key = "apps_and_features_entries" THEN EntriesEq(value, other) ELSE value = other

(***************************************************************************)
(* InstallerManifest::optimize                                             *)
(***************************************************************************)

\* A slip of the macro call: switches.custom among the keys
OptimizeKeysWithCustom ==
    <<"locale", "scope", "switches.silent", "switches.custom", "apps_and_features_entries">>

\* The keys of optimize_keys!, in the order of the macro call
OptimizeKeys == <<"locale", "scope", "switches.silent", "apps_and_features_entries">>

\* Itertools::all_equal_value over the key of every installer: Ok(first) when
\* there is a first value and no later value differs from it
AllEqualValue(installers, key) ==
    /\ Len(installers) > 0
    /\ \A i \in 2..Len(installers) :
           KeyEq(key, Get(installers[i], key), Get(installers[1], key))

\* A slip of the expansion: without a common value the key of the manifest is
\* left as it is
OptimizeKeyKeeping(m, key) ==
    IF AllEqualValue(m.installers, key)
    THEN [ Set(m, key, Get(m.installers[1], key)) EXCEPT
               !.installers = [i \in 1..Len(m.installers) |->
                                  Set(m.installers[i], key, KeyDefault(key))] ]
    ELSE m

\* One expansion of optimize_keys!: hoist the first installer's value and reset
\* the key in every installer, or reset the key of the manifest
OptimizeKey(m, key) ==
    IF AllEqualValue(m.installers, key)
    THEN [ Set(m, key, Get(m.installers[1], key)) EXCEPT
               !.installers = [i \in 1..Len(m.installers) |->
                                  Set(m.installers[i], key, KeyDefault(key))] ]
    ELSE Set(m, key, KeyDefault(key))

\* The expansions for the keys from the i-th on, in order
RECURSIVE OptimizeKeysFrom(_, _)
OptimizeKeysFrom(m, i) ==
    IF i > Len(OptimizeKeys) THEN m
    ELSE OptimizeKeysFrom(OptimizeKey(m, OptimizeKeys[i]), i + 1)

\* The permutations of 1..n
IndexPermutations(n) == {p \in [1..n -> 1..n] : \A i, j \in 1..n : i # j => p[i] # p[j]}

\* slice::sort_unstable: some ordering of the elements in which no element is
\* greater than its successor; elements that compare Equal may come in any order
SortUnstable(installers) ==
    LET n == Len(installers)
    IN  { [i \in 1..n |-> installers[p[i]]] :
            p \in { q \in IndexPermutations(n) :
                      \A i \in 1..(n - 1) :
                          InstallerCmp(installers[q[i]], installers[q[i + 1]]) # "Greater" } }

\* Vec::dedup: drops every element equal to the element retained before it
RECURSIVE DedupFrom(_, _, _)
DedupFrom(installers, i, kept) ==
    IF i > Len(installers) THEN kept
    ELSE IF kept # <<>> /\ InstallerEq(installers[i], kept[Len(kept)])
    THEN DedupFrom(installers, i + 1, kept)
    ELSE DedupFrom(installers, i + 1, Append(kept, installers[i]))

Dedup(installers) == DedupFrom(installers, 1, <<>>)

\* The manifests InstallerManifest::optimize can leave
OptimizeResults(m) ==
    LET hoisted == [OptimizeKeysFrom(m, 1) EXCEPT !.manifest_version = ManifestVersionDefault]
    IN  { [hoisted EXCEPT !.installers = Dedup(sorted)] :
            sorted \in SortUnstable(hoisted.installers) }

(***************************************************************************)
(* SpecOptimize: a manifest is built, then optimize is called on it        *)
(***************************************************************************)

EN_US == <<"e", "n", "-", "U", "S">>

SLASH_S == <<"/", "S">>

DASH_C == <<"-", "c">>

\* The display versions of the entries the installers are built with
DisplayVersions ==
    { VersionNew(<<"1">>),
      VersionNew(<<"1", ".", "0">>),
      VersionNew(<<"0">> \o LATEST),
      VersionNew(LATEST),
      VersionNew(<<"L", "A", "T", "E", "S", "T">>) }

X86 == [InstallerDefault EXCEPT !.architecture = "X86"]

X64 == [InstallerDefault EXCEPT !.architecture = "X64"]

\* The installers a manifest is built from: one value set on top of an
\* architecture
OptimizeInstallers ==
    { X86, X64,
      Set(X86, "locale", Some(EN_US)),
      Set(X64, "locale", Some(EN_US)),
      Set(X86, "scope", Some("User")),
      Set(X64, "scope", Some("Machine")),
      Set(X86, "switches.silent", Some(<<SLASH_S>>)),
      Set(X86, "switches.custom", Some(<<DASH_C>>)) }
    \cup { Set(X86, "apps_and_features_entries", <<[display_version |-> Some(v)]>>) :
             v \in DisplayVersions }

\* The largest number of installers of a manifest
MaxInstallers == 3

\* The largest number of calls of optimize on one manifest
MaxCalls == 2

\* A manifest whose manifest-level fields were all set by its builder
ManifestPopulated ==
    [ package_identifier        |-> <<"a", ".", "b">>,
      locale                    |-> Some(EN_US),
      scope                     |-> Some("Machine"),
      switches                  |-> [SwitchesDefault EXCEPT !.silent = Some(<<SLASH_S>>),
                                                            !.custom = Some(<<DASH_C>>)],
      apps_and_features_entries |-> <<[display_version |-> Some(VersionNew(<<"1">>))]>>,
      installers                |-> <<>>,
      manifest_version          |-> <<1, 9, 0>> ]

InstallerLists ==
    UNION { [1..n -> OptimizeInstallers] : n \in 0..MaxInstallers }

InitOptimize ==
    /\ pc = "built"
    /\ \E m \in {ManifestDefault, ManifestPopulated}, installers \in InstallerLists :
           manifest = [m EXCEPT !.installers = installers]
    /\ before = "none"
    /\ calls = 0
    /\ VersionUnused /\ MergeUnused /\ ClosestUnused /\ PackageVersionUnused /\ PartUnused /\ SwitchesUnused /\ IdentifierUnused /\ MarketsUnused /\ ParseUnused

\* InstallerManifest::optimize
Optimize ==
    /\ pc \in {"built", "optimized"}
    /\ calls < MaxCalls
    /\ manifest' \in OptimizeResults(manifest)
    /\ before' = manifest
    /\ calls' = calls + 1
    /\ pc' = "optimized"
    /\ UNCHANGED exceptOptimizeVars

NextOptimize == Optimize

SpecOptimize == InitOptimize /\ [][NextOptimize]_vars

----
\* Do all the installers hold equal values of the key?
AllHoldEqual(installers, key) ==
    \A i, j \in 1..Len(installers) :
        KeyEq(key, Get(installers[i], key), Get(installers[j], key))

\* C5: after optimize on a manifest with at least one installer, for every
\* optimized key: if all installers held equal values of it, the manifest holds
\* that common value and every installer holds the default; otherwise the
\* manifest holds the default and every installer holds the value it had.
C5_HoistOrReset ==
    pc = "optimized" /\ Len(before.installers) >= 1 =>
        /\ \A k \in 1..Len(OptimizeKeys) :
               LET key == OptimizeKeys[k]
               IN  IF AllHoldEqual(before.installers, key)
                   THEN /\ KeyEq(key, Get(manifest, key), Get(before.installers[1], key))
                        /\ \A i \in 1..Len(manifest.installers) :
                               Get(manifest.installers[i], key) = KeyDefault(key)
                   ELSE Get(manifest, key) = KeyDefault(key)
        /\ \A i \in 1..Len(manifest.installers) :
               \E j \in 1..Len(before.installers) :
                   \A k \in 1..Len(OptimizeKeys) :
                       LET key == OptimizeKeys[k]
                       IN  ~AllHoldEqual(before.installers, key) =>
                               Get(manifest.installers[i], key) = Get(before.installers[j], key)

\* C6: optimize is idempotent: a second call in a row leaves the manifest as
\* the first call left it.
C6_Idempotent ==
    pc = "optimized" /\ calls >= 2 => manifest = before

\* C7: after optimize the installers are sorted ascending, no two of them are
\* equal, and every installer of the list as hoisted is still represented by
\* an equal one.
C7_SortedAndDeduplicated ==
    pc = "optimized" =>
        LET installers == manifest.installers
            hoisted    == OptimizeKeysFrom(before, 1).installers
        IN  /\ \A i, j \in 1..Len(installers) :
                   i < j => InstallerCmp(installers[i], installers[j]) # "Greater"
            /\ \A i, j \in 1..Len(installers) :
                   i # j => ~InstallerEq(installers[i], installers[j])
            /\ \A i \in 1..Len(hoisted) :
                   \E j \in 1..Len(installers) : InstallerEq(hoisted[i], installers[j])
            /\ \A j \in 1..Len(installers) :
                   \E i \in 1..Len(hoisted) : installers[j] = hoisted[i]

\* C26: when the installers list is empty, optimize hoists nothing: every
\* optimized key of the manifest ends at its default, whatever it held, and
\* the installers list stays empty.
C26_EmptyResetsToDefault ==
    pc = "optimized" /\ before.installers = <<>> =>
        /\ manifest.locale = None
        /\ manifest.scope = None
        /\ manifest.switches.silent = None
        /\ manifest.apps_and_features_entries = <<>>
        /\ manifest.installers = <<>>

\* optimize was called on a manifest without installers that held a value in
\* every optimized key.
C26_Witness ==
    /\ pc = "optimized"
    /\ before.installers = <<>>
    /\ before.locale # None
    /\ before.scope # None
    /\ before.switches.silent # None
    /\ before.apps_and_features_entries # <<>>
    /\ manifest.locale = None

\* What optimize leaves alone in an installer: the architecture and the
\* custom switch
Untouched(installer) == <<installer.architecture, installer.switches.custom>>

\* C27: besides the optimized keys and the order and multiplicity of the
\* installers, optimize only resets manifest_version to its default: the
\* package_identifier and the custom switch of the manifest are as before, and
\* the installers hold the architectures and custom switches they held; a
\* custom switch that all installers share stays in the installers.
C27_Frame ==
    pc = "optimized" =>
        /\ manifest.manifest_version = <<1, 10, 0>>
        /\ manifest.package_identifier = before.package_identifier
        /\ manifest.switches.custom = before.switches.custom
        /\ {Untouched(manifest.installers[i]) : i \in 1..Len(manifest.installers)}
               = {Untouched(before.installers[i]) : i \in 1..Len(before.installers)}
        /\ Len(manifest.installers) <= Len(before.installers)

\* Two installers shared a custom switch that the manifest did not hold, and
\* the manifest held an identifier and a manifest_version of its own: the
\* switch is still in the installer and not in the manifest, and only
\* manifest_version has changed.
C27_Witness ==
    /\ pc = "optimized"
    /\ Len(before.installers) >= 2
    /\ \A i \in 1..Len(before.installers) : before.installers[i].switches.custom = Some(<<DASH_C>>)
    /\ before.switches.custom = None
    /\ manifest.switches.custom = None
    /\ \A i \in 1..Len(manifest.installers) : manifest.installers[i].switches.custom = Some(<<DASH_C>>)

\* The record an installer stands for within a manifest: an optimized key
\* reads the installer's own value unless that is the default, and the
\* manifest's value otherwise
Effective(m, installer) ==
    LET read(key) == IF Get(installer, key) # KeyDefault(key)
                     THEN Get(installer, key) ELSE Get(m, key)
    IN  [ installer EXCEPT
              !.locale = read("locale"),
              !.scope = read("scope"),
              !.switches.silent = read("switches.silent"),
              !.apps_and_features_entries = read("apps_and_features_entries") ]

\* Does the manifest hold the default in every optimized key?
Fresh(m) ==
    /\ m.locale = None
    /\ m.scope = None
    /\ m.switches.silent = None
    /\ m.apps_and_features_entries = <<>>

\* Is a record among the effective records of the installers of a manifest,
\* by the == of Installer?
AmongEffective(record, m) ==
    \E i \in 1..Len(m.installers) : InstallerEq(record, Effective(m, m.installers[i]))

\* C28: optimize is lossless on a freshly built manifest: when every optimized
\* key of the manifest held its default, the set of the effective installer
\* records is the same before and after: a record is among them after the
\* call exactly when it was among them before.
C28_Lossless ==
    pc = "optimized" /\ Fresh(before) =>
        \A record \in OptimizeInstallers :
            AmongEffective(record, before) <=> AmongEffective(record, manifest)

(***************************************************************************)
(* Installer::merge_with                                                   *)
(***************************************************************************)

\* The keys of merge_keys! before the bracketed list, in the order of the call
MergeKeys == <<"locale", "scope", "apps_and_features_entries">>

\* The switches of the bracketed list of merge_keys!, in the order of the call
MergeSwitches == <<"switches.silent", "switches.custom">>

\* A slip of the first expansion: other takes priority whenever it holds a value
MergeKeyOtherFirst(installer, other, key) ==
    IF ~KeyEq(key, Get(other, key), KeyDefault(key))
    THEN Set(installer, key, Get(other, key))
    ELSE installer

\* The first expansion of merge_keys!: a key of self that equals its default
\* takes the value of other
MergeKey(installer, other, key) ==
    IF KeyEq(key, Get(installer, key), KeyDefault(key))
    THEN Set(installer, key, Get(other, key))
    ELSE installer

RECURSIVE MergeKeysFrom(_, _, _)
MergeKeysFrom(installer, other, i) ==
    IF i > Len(MergeKeys) THEN installer
    ELSE MergeKeysFrom(MergeKey(installer, other, MergeKeys[i]), other, i + 1)

\* SilentSwitch(InstallerSwitch<512>): the N of the silent switch
SILENT_MAX_CHAR_LENGTH == 512

\* CustomSwitch(InstallerSwitch<2048>): the N of the custom switch
CUSTOM_MAX_CHAR_LENGTH == 2048

\* InstallerSwitch::MAX_CHAR_LENGTH of the type of a switch key
SwitchMaxCharLength(key) ==
    IF key = "switches.silent" THEN SILENT_MAX_CHAR_LENGTH ELSE CUSTOM_MAX_CHAR_LENGTH

\* InstallerSwitch::DELIMITERS
DELIMITERS == <<",", " ">>

\* s.split(DELIMITERS).filter(|switch| !switch.is_empty()).collect(): the
\* maximal runs of characters that are no delimiters, in order
SplitSwitches(s) ==
    LET isDelimiter(c) == \E d \in 1..Len(DELIMITERS) : DELIMITERS[d] = c
        starts == {i \in 1..Len(s) : ~isDelimiter(s[i]) /\ (i = 1 \/ isDelimiter(s[i - 1]))}
        ends   == {i \in 1..Len(s) : ~isDelimiter(s[i]) /\ (i = Len(s) \/ isDelimiter(s[i + 1]))}
        nth(positions, k) == CHOOSE i \in positions : Cardinality({j \in positions : j <= i}) = k
    IN  [k \in 1..Cardinality(starts) |-> SubSeq(s, nth(starts, k), nth(ends, k))]

\* impl FromStr for InstallerSwitch<N>
SwitchFromStr(s, n) ==
    IF s = <<>> THEN Err(<<"Empty">>)
    ELSE IF Len(s) > n THEN Err(<<"TooLong">>)
    ELSE Ok(SplitSwitches(s))

\* impl Display for InstallerSwitch<N>: the parts with " " between them
RECURSIVE SwitchToString(_)
SwitchToString(switch) ==
    IF switch = <<>> THEN <<>>
    ELSE IF Len(switch) = 1 THEN switch[1]
    ELSE switch[1] \o <<" ">> \o SwitchToString(Tail(switch))

\* A slip of InstallerSwitch::contains: the comparison minds the case
SwitchContainsExactly(switch, part) ==
    \E i \in 1..Len(switch) : switch[i] = part

\* InstallerSwitch::contains
SwitchContains(switch, part) ==
    \E i \in 1..Len(switch) : EqIgnoreAsciiCase(switch[i], part)

\* InstallerSwitch::push
SwitchPush(switch, part) == Append(switch, part)

\* for part in other_switch { if !switch.contains(part) { switch.push(part.clone()) } }
RECURSIVE PushMissingFrom(_, _, _)
PushMissingFrom(switch, other_switch, i) ==
    IF i > Len(other_switch) THEN switch
    ELSE IF ~SwitchContains(switch, other_switch[i])
    THEN PushMissingFrom(SwitchPush(switch, other_switch[i]), other_switch, i + 1)
    ELSE PushMissingFrom(switch, other_switch, i + 1)

\* A slip of the second expansion: every part of other is pushed, contained or not
MergeSwitchPushAll(installer, other, key) ==
    IF Get(installer, key) # None /\ Get(other, key) # None
    THEN Set(installer, key, Some(Get(installer, key)[1] \o Get(other, key)[1]))
    ELSE installer

\* The second expansion of merge_keys!: a switch present on both sides takes
\* the parts of other it does not contain
MergeSwitch(installer, other, key) ==
    IF Get(installer, key) # None /\ Get(other, key) # None
    THEN Set(installer, key,
             Some(PushMissingFrom(Get(installer, key)[1], Get(other, key)[1], 1)))
    ELSE installer

RECURSIVE MergeSwitchesFrom(_, _, _)
MergeSwitchesFrom(installer, other, i) ==
    IF i > Len(MergeSwitches) THEN installer
    ELSE MergeSwitchesFrom(MergeSwitch(installer, other, MergeSwitches[i]), other, i + 1)

\* Installer::merge_with
MergeWith(installer, other) ==
    MergeSwitchesFrom(MergeKeysFrom(installer, other, 1), other, 1)

(***************************************************************************)
(* SpecMerge: two installers are built, then merged                        *)
(***************************************************************************)

DE_DE == <<"d", "e", "-", "D", "E">>

\* The parts the switches are made of
SwitchParts == { SLASH_S, <<"/", "s">>, <<"/", "q">> }

\* The largest number of parts of a switch
MaxSwitchParts == 2

\* The values of a switch: absent, or a list of parts (the empty list is what
\* a string of delimiters parses to)
SwitchValues ==
    {None} \cup { Some(switch) : switch \in UNION { [1..n -> SwitchParts] : n \in 0..MaxSwitchParts } }

\* Strings of a silent switch that are about as long as a SilentSwitch may
\* be: one part of 512 characters, two parts that are 512 characters with
\* the delimiter between them, and one part of 513 characters
LongSwitchTexts ==
    { Repeat("a", SILENT_MAX_CHAR_LENGTH),
      Repeat("a", SILENT_MAX_CHAR_LENGTH - 3) \o <<",">> \o <<"/", "q">>,
      Repeat("a", SILENT_MAX_CHAR_LENGTH + 1) }

\* The installers handed to merge_with
MergeInstallers ==
    { [InstallerDefault EXCEPT !.locale = locale, !.architecture = architecture,
                               !.switches.silent = silent] :
        locale \in {None, Some(EN_US), Some(DE_DE)},
        architecture \in {ArchitectureDefault, "X64"},
        silent \in SwitchValues }
    \cup { Set(InstallerDefault, "scope", Some("User")),
           Set(InstallerDefault, "scope", Some("Machine")),
           Set(InstallerDefault, "switches.custom", Some(<<DASH_C>>)),
           Set(InstallerDefault, "switches.custom", Some(<<SLASH_S, DASH_C>>)) }
    \cup { Set(InstallerDefault, "apps_and_features_entries", <<[display_version |-> Some(v)]>>) :
             v \in DisplayVersions }
    \cup { Set(InstallerDefault, "switches.silent", Some(SwitchFromStr(long, SILENT_MAX_CHAR_LENGTH).value)) :
             long \in { lng \in LongSwitchTexts : SwitchFromStr(lng, SILENT_MAX_CHAR_LENGTH).tag = "Ok" } }

InitMerge ==
    /\ pc = "ready"
    /\ receiver \in MergeInstallers
    /\ argument \in MergeInstallers
    /\ merged = "none"
    /\ VersionUnused /\ OptimizeUnused /\ ClosestUnused /\ PackageVersionUnused /\ PartUnused /\ SwitchesUnused /\ IdentifierUnused /\ MarketsUnused /\ ParseUnused

\* self.merge_with(other)
Merge ==
    /\ pc = "ready"
    /\ merged' = MergeWith(receiver, argument)
    /\ pc' = "merged"
    /\ UNCHANGED <<receiver, argument, exceptMergeVars>>

NextMerge == Merge

SpecMerge == InitMerge /\ [][NextMerge]_vars

----
\* C8: for every key of the replace-if-default list, the merged value is
\* other's when self's equals the default of the type, and self's otherwise.
C8_ReplaceIfDefault ==
    pc = "merged" =>
        \A k \in 1..Len(MergeKeys) :
            LET key == MergeKeys[k]
            IN  Get(merged, key) =
                    IF KeyEq(key, Get(receiver, key), KeyDefault(key))
                    THEN Get(argument, key)
                    ELSE Get(receiver, key)

\* Both sides hold a locale, the two differ, and self's is the one kept.
C8_Witness ==
    /\ pc = "merged"
    /\ receiver.locale # None
    /\ argument.locale # None
    /\ receiver.locale # argument.locale
    /\ merged.locale = receiver.locale

\* The elements of a sequence at the positions of a set, in ascending order
AtPositions(seq, positions) ==
    [k \in 1..Cardinality(positions) |->
        seq[CHOOSE i \in positions : Cardinality({j \in positions : j <= i}) = k]]

\* Is the part among the parts of the switch, the ASCII case ignored?
Among(switch, part) == \E i \in 1..Len(switch) : EqIgnoreAsciiCase(switch[i], part)

InstallerKeys ==
    { "locale", "architecture", "scope", "switches.silent", "switches.custom",
      "apps_and_features_entries" }

\* C10: for every key of the Installer, each switch included, the merged value
\* is other's when self's equals its default and self's otherwise.
C10_FillsEveryGap ==
    pc = "merged" =>
        \A key \in InstallerKeys :
            Get(merged, key) =
                IF KeyEq(key, Get(receiver, key), KeyDefault(key))
                THEN Get(argument, key)
                ELSE Get(receiver, key)

\* C11: merging an installer with an identical copy of itself changes nothing,
\* and merging a default installer with itself yields a default installer.
C11_MergeWithCopyIsIdentity ==
    pc = "merged" /\ argument = receiver =>
        /\ merged = receiver
        /\ InstallerEq(merged, receiver)
        /\ receiver = InstallerDefault => merged = InstallerDefault

\* An installer that holds a silent switch of two parts was merged with its copy.
C11_Witness ==
    /\ pc = "merged"
    /\ argument = receiver
    /\ receiver.switches.silent # None
    /\ Len(receiver.switches.silent[1]) = 2
    /\ receiver.locale # None
    /\ merged = receiver

\* C29: merge_with keeps a switch within its length bound: when self's and
\* other's value of a switch each have a space-joined form of at most N
\* characters, N the MAX_CHAR_LENGTH of the type of the switch that from_str
\* enforces, so has the merged value.
C29_MergeKeepsLengthBound ==
    pc = "merged" =>
        \A k \in 1..Len(MergeSwitches) :
            LET key == MergeSwitches[k]
                fits(value) ==
                    value # None => Len(SwitchToString(value[1])) <= SwitchMaxCharLength(key)
            IN  fits(Get(receiver, key)) /\ fits(Get(argument, key)) => fits(Get(merged, key))

(***************************************************************************)
(* Version::closest                                                        *)
(***************************************************************************)

\* The width of usize, which is the width of a pointer of the target: the
\* narrowest there is. An index of a list of parts is far below usize::MAX on
\* every target, so the order of the scores is the same on the wider ones.
UsizeBits == 16

\* usize::MAX
UsizeMax == 2^UsizeBits - 1

\* A slip of the length score: the index itself, not its complement
BitNotDropped(index) == index

\* !index on usize
BitNot(index) == UsizeMax - index

\* A slip of the difference: self's number less the candidate's, whatever its
\* sign
AbsDiffSigned(m, n) == m - n

\* u64::abs_diff
AbsDiff(m, n) == IF m < n THEN n - m ELSE m - n

\* A slip of the derived Ord of Ordering: Greater first
OrderingDiscriminantReversed(ordering) ==
    CASE ordering = "Less" -> 1 [] ordering = "Equal" -> 0 [] ordering = "Greater" -> -1

\* The discriminants of core::cmp::Ordering, which its derived Ord compares
OrderingDiscriminant(ordering) ==
    CASE ordering = "Less" -> -1 [] ordering = "Equal" -> 0 [] ordering = "Greater" -> 1

\* A slip of the derived Ord of DistanceKey: the supplement in its own order,
\* without Reverse
DistanceKeyCmpUnreversed(key, other) ==
    LET then(first, second) == IF first # "Equal" THEN first ELSE second
    IN  then(IntCmp(key.length_score, other.length_score),
        then(IntCmp(key.numerical_difference, other.numerical_difference),
        then(IntCmp(OrderingDiscriminant(key.total_order), OrderingDiscriminant(other.total_order)),
             StrCmp(key.supplement_order, other.supplement_order))))

\* The derived Ord of DistanceKey: its fields in declaration order, the
\* supplement reversed by Reverse
DistanceKeyCmp(key, other) ==
    Then(IntCmp(key.length_score, other.length_score),
    Then(IntCmp(key.numerical_difference, other.numerical_difference),
    Then(IntCmp(OrderingDiscriminant(key.total_order), OrderingDiscriminant(other.total_order)),
         StrCmp(other.supplement_order, key.supplement_order))))

\* The pair that zip_longest and map yield at a position (counted from 1), a
\* missing part being VersionPart::DEFAULT
ZipLongestPair(parts, other_parts, i) ==
    <<IF i <= Len(parts) THEN parts[i] ELSE VersionPartDefault,
      IF i <= Len(other_parts) THEN other_parts[i] ELSE VersionPartDefault>>

\* The positions (counted from 1) at which the pair holds two different parts
DifferentAt(parts, other_parts) ==
    LET longest == IF Len(parts) > Len(other_parts) THEN Len(parts) ELSE Len(other_parts)
    IN  {i \in 1..longest :
            ZipLongestPair(parts, other_parts, i)[1] # ZipLongestPair(parts, other_parts, i)[2]}

\* The key when no position differs (unwrap_or)
DistanceKeyZero ==
    [length_score |-> 0, numerical_difference |-> 0,
     total_order |-> "Equal", supplement_order |-> <<>>]

\* A slip of the key: the candidate's part is compared with self's
DistanceKeyOtherFirst(v, other) ==
    IF DifferentAt(v.parts, other.parts) = {} THEN DistanceKeyZero
    ELSE LET i == CHOOSE i \in DifferentAt(v.parts, other.parts) :
                      \A j \in DifferentAt(v.parts, other.parts) : i <= j
             part       == ZipLongestPair(v.parts, other.parts, i)[1]
             other_part == ZipLongestPair(v.parts, other.parts, i)[2]
         IN  [length_score |-> BitNot(i - 1),
              numerical_difference |-> AbsDiff(part.number, other_part.number),
              total_order |-> VersionPartCmp(other_part, part),
              supplement_order |-> other_part.supplement]

\* The closure handed to min_by_key: the key of the first pair of different
\* parts (find_map over enumerate, whose index counts from 0), or the zero key
DistanceKeyOf(v, other) ==
    IF DifferentAt(v.parts, other.parts) = {} THEN DistanceKeyZero
    ELSE LET i == CHOOSE i \in DifferentAt(v.parts, other.parts) :
                      \A j \in DifferentAt(v.parts, other.parts) : i <= j
             part       == ZipLongestPair(v.parts, other.parts, i)[1]
             other_part == ZipLongestPair(v.parts, other.parts, i)[2]
         IN  [length_score |-> BitNot(i - 1),
              numerical_difference |-> AbsDiff(part.number, other_part.number),
              total_order |-> VersionPartCmp(part, other_part),
              supplement_order |-> other_part.supplement]

\* A slip of min_by_key: a later element with an equal key takes over
RECURSIVE MinByKeyLastFrom(_, _, _, _)
MinByKeyLastFrom(v, candidates, best, i) ==
    IF i > Len(candidates) THEN best
    ELSE IF DistanceKeyCmp(DistanceKeyOf(v, candidates[best]),
                           DistanceKeyOf(v, candidates[i])) # "Less"
    THEN MinByKeyLastFrom(v, candidates, i, i + 1)
    ELSE MinByKeyLastFrom(v, candidates, best, i + 1)

\* Iterator::min_by_key from the second element on: the element kept so far
\* gives way only to one whose key is strictly less
RECURSIVE MinByKeyFrom(_, _, _, _)
MinByKeyFrom(v, candidates, best, i) ==
    IF i > Len(candidates) THEN best
    ELSE IF DistanceKeyCmp(DistanceKeyOf(v, candidates[best]),
                           DistanceKeyOf(v, candidates[i])) = "Greater"
    THEN MinByKeyFrom(v, candidates, i, i + 1)
    ELSE MinByKeyFrom(v, candidates, best, i + 1)

\* Version::closest: None, or the reference to a candidate, which is its
\* position in the iteration (counted from 1)
VersionClosest(v, candidates) ==
    IF candidates = <<>> THEN None ELSE Some(MinByKeyFrom(v, candidates, 1, 2))

(***************************************************************************)
(* SpecClosest: a version and a list of candidates are built, then the     *)
(* closest candidate is searched                                           *)
(***************************************************************************)

\* The strings of the versions closest is called on
ClosestSelfStrings ==
    { <<"2">>, <<"2", "a">>, <<"2", ".", "1">>, <<"1", ".", "6">>, <<"1", ".", "2">> }

\* The strings of the candidates
ClosestCandidateStrings ==
    { <<"1">>, <<"2">>, <<"3">>, <<"4">>,
      <<"2", ".", "0">>, <<"v", "2">>,
      <<"2", "a">>, <<"2", "b">>,
      <<"1", ".", "5">>, <<"1", ".", "7">> }

\* The largest number of candidates
MaxCandidates == 3

\* The lists of candidates: every list of up to MaxCandidates versions
CandidateLists ==
    UNION { [1..n -> {VersionNew(c) : c \in ClosestCandidateStrings}] : n \in 0..MaxCandidates }

\* The cases of tests::closest_version: version, versions, expected
ClosestCases ==
    { 
      <<<<"1", ".", "2", ".", "3">>,
        <<<<"1", ".", "0", ".", "0">>,
          <<"0", ".", "9", ".", "0">>,
          <<"1", ".", "5", ".", "6", ".", "3">>,
          <<"1", ".", "3", ".", "2">>>>,
        <<"1", ".", "3", ".", "2">>>>,
      <<<<"1", "0", ".", "2", "0", ".", "3", "0">>,
        <<<<"1", "0", ".", "2", "0", ".", "2", "9">>,
          <<"1", "0", ".", "2", "0", ".", "3", "1">>,
          <<"1", "0", ".", "2", "0", ".", "4", "0">>>>,
        <<"1", "0", ".", "2", "0", ".", "3", "1">>>>,
      <<<<"5", ".", "5", ".", "5">>,
        <<<<"5", ".", "5", ".", "5", "0">>,
          <<"5", ".", "5", ".", "0">>,
          <<"5", ".", "5", ".", "1", "0">>>>,
        <<"5", ".", "5", ".", "1", "0">>>>,
      <<<<"3", ".", "0", ".", "0">>,
        <<<<"3", ".", "0", ".", "0", "-", "b", "e", "t", "a">>,
          <<"3", ".", "0", ".", "0", "-", "a", "l", "p", "h", "a", ".", "1">>,
          <<"3", ".", "0", ".", "0", "-", "r", "c", ".", "1">>>>,
        <<"3", ".", "0", ".", "0", "-", "r", "c", ".", "1">>>>,
      <<<<"2", ".", "1", ".", "0", "-", "b", "e", "t", "a">>,
        <<<<"2", ".", "1", ".", "0", "-", "a", "l", "p", "h", "a">>,
          <<"2", ".", "1", ".", "0", "-", "b", "e", "t", "a", ".", "2">>,
          <<"2", ".", "1", ".", "0">>>>,
        <<"2", ".", "1", ".", "0", "-", "b", "e", "t", "a", ".", "2">>>>,
      <<<<"1", ".", "5", ".", "0">>,
        <<<<"1", ".", "0", ".", "0">>,
          <<"2", ".", "0", ".", "0">>>>,
        <<"1", ".", "0", ".", "0">>>>,
      <<<<"3", ".", "3", ".", "3">>,
        <<<<"1", ".", "1", ".", "1">>,
          <<"5", ".", "5", ".", "5">>>>,
        <<"5", ".", "5", ".", "5">>>>,
      <<<<"2", ".", "2", ".", "2">>,
        <<<<"2", ".", "2", ".", "2">>,
          <<"2", ".", "2", ".", "2">>,
          <<"2", ".", "2", ".", "3">>>>,
        <<"2", ".", "2", ".", "2">>>>,
      <<<<"0", ".", "0", ".", "2">>,
        <<<<"0", ".", "0", ".", "1">>,
          <<"0", ".", "0", ".", "3">>,
          <<"0", ".", "2", ".", "0">>>>,
        <<"0", ".", "0", ".", "3">>>>,
      <<<<"9", "9", "9", ".", "9", "9", "9", ".", "9", "9", "9">>,
        <<<<"9", "9", "9", ".", "9", "9", "9", ".", "9", "9", "8">>,
          <<"1", "0", "0", "0", ".", "0", ".", "0">>>>,
        <<"9", "9", "9", ".", "9", "9", "9", ".", "9", "9", "8">>>> }

\* The versions of a case, in every iteration order
Reorderings(strings) ==
    { [i \in 1..Len(strings) |-> VersionNew(strings[p[i]])] : p \in IndexPermutations(Len(strings)) }

InitClosest ==
    /\ pc = "given"
    /\ \/ /\ version \in {VersionNew(c) : c \in ClosestSelfStrings}
          /\ versions \in CandidateLists
       \/ \E case \in ClosestCases :
              /\ version = VersionNew(case[1])
              /\ versions \in Reorderings(case[2])
    /\ chosen = "none"
    /\ VersionUnused /\ OptimizeUnused /\ MergeUnused /\ PackageVersionUnused /\ PartUnused /\ SwitchesUnused /\ IdentifierUnused /\ MarketsUnused /\ ParseUnused

\* version.closest(&versions)
Closest ==
    /\ pc = "given"
    /\ chosen' = VersionClosest(version, versions)
    /\ pc' = "searched"
    /\ UNCHANGED <<version, versions, exceptClosestVars>>

NextClosest == Closest

SpecClosest == InitClosest /\ [][NextClosest]_vars

----
\* C12: closest returns None exactly when there is no candidate; otherwise it
\* returns one of the candidates, one whose distance key is minimal, and of
\* the candidates with that minimal key the first in iteration order.
C12_FirstOfTheMinimal ==
    pc = "searched" =>
        /\ chosen = None <=> versions = <<>>
        /\ chosen # None =>
               /\ chosen[1] \in 1..Len(versions)
               /\ \A j \in 1..Len(versions) :
                      DistanceKeyCmp(DistanceKeyOf(version, versions[chosen[1]]),
                                     DistanceKeyOf(version, versions[j])) # "Greater"
               /\ \A j \in 1..(chosen[1] - 1) :
                      DistanceKeyCmp(DistanceKeyOf(version, versions[j]),
                                     DistanceKeyOf(version, versions[chosen[1]])) = "Greater"

\* Two candidates share the first part that differs from self's and differ in
\* a later part; they tie on the minimal key and the first of them is returned,
\* which is not the first of the list.
C12_Witness ==
    /\ pc = "searched"
    /\ chosen # None
    /\ chosen[1] > 1
    /\ \E j \in (chosen[1] + 1)..Len(versions) :
           /\ DistanceKeyOf(version, versions[j]) = DistanceKeyOf(version, versions[chosen[1]])
           /\ DistanceKeyOf(version, versions[j]) # DistanceKeyZero
           /\ versions[j].parts # versions[chosen[1]].parts

\* C13: when some candidate has the parts of self, closest returns the first
\* such candidate in iteration order, whatever the other candidates are and
\* wherever they stand.
C13_ExactMatchWins ==
    pc = "searched" =>
        \A i \in 1..Len(versions) :
            /\ versions[i].parts = version.parts
            /\ \A j \in 1..(i - 1) : versions[j].parts # version.parts
            => chosen = Some(i)

\* The exact match is written otherwise than self (a trailing .0), stands
\* behind a candidate that differs from self only in the supplement, and is
\* returned.
C13_Witness ==
    /\ pc = "searched"
    /\ chosen # None
    /\ chosen[1] > 1
    /\ versions[chosen[1]].parts = version.parts
    /\ versions[chosen[1]].raw # version.raw
    /\ \E j \in 1..(chosen[1] - 1) :
           DistanceKeyOf(version, versions[j]).numerical_difference = 0

\* Does the candidate first differ from self at position i (counted from 1),
\* by the number difference d?
DivergesAt(candidate, i, d) ==
    /\ DifferentAt(version.parts, candidate.parts) # {}
    /\ i \in DifferentAt(version.parts, candidate.parts)
    /\ \A j \in DifferentAt(version.parts, candidate.parts) : i <= j
    /\ AbsDiff(ZipLongestPair(version.parts, candidate.parts, i)[1].number,
               ZipLongestPair(version.parts, candidate.parts, i)[2].number) = d

\* C14: of two candidates that first differ from self at the same position by
\* the same number difference, the one whose part there is greater than self's
\* is preferred to the one whose part is less, in whatever order they come:
\* the lower one is not returned. So closest(10.20.30, [10.20.29, 10.20.31,
\* 10.20.40]) = 10.20.31, closest(0.0.2, [0.0.1, 0.0.3, 0.2.0]) = 0.0.3 and
\* closest(3.3.3, .) = 5.5.5 for [1.1.1, 5.5.5] and [5.5.5, 1.1.1].
C14_PrefersHigher ==
    pc = "searched" =>
        /\ \A higher, lower \in 1..Len(versions) :
               \A i \in DifferentAt(version.parts, versions[higher].parts) :
                   LET mine  == ZipLongestPair(version.parts, versions[higher].parts, i)[1]
                       above == ZipLongestPair(version.parts, versions[higher].parts, i)[2]
                       below == ZipLongestPair(version.parts, versions[lower].parts, i)[2]
                   IN  /\ DivergesAt(versions[higher], i, AbsDiff(mine.number, above.number))
                       /\ DivergesAt(versions[lower], i, AbsDiff(mine.number, above.number))
                       /\ VersionPartCmp(above, mine) = "Greater"
                       /\ VersionPartCmp(below, mine) = "Less"
                       => chosen # Some(lower)
        /\ /\ version = VersionNew(<<"1", "0", ".", "2", "0", ".", "3", "0">>)
           /\ versions \in Reorderings(<<<<"1", "0", ".", "2", "0", ".", "2", "9">>,
                                       <<"1", "0", ".", "2", "0", ".", "3", "1">>,
                                       <<"1", "0", ".", "2", "0", ".", "4", "0">>>>)
           => chosen # None /\ versions[chosen[1]] = VersionNew(<<"1", "0", ".", "2", "0", ".", "3", "1">>)
        /\ /\ version = VersionNew(<<"0", ".", "0", ".", "2">>)
           /\ versions \in Reorderings(<<<<"0", ".", "0", ".", "1">>,
                                       <<"0", ".", "0", ".", "3">>,
                                       <<"0", ".", "2", ".", "0">>>>)
           => chosen # None /\ versions[chosen[1]] = VersionNew(<<"0", ".", "0", ".", "3">>)
        /\ /\ version = VersionNew(<<"3", ".", "3", ".", "3">>)
           /\ versions \in Reorderings(<<<<"1", ".", "1", ".", "1">>,
                                       <<"5", ".", "5", ".", "5">>>>)
           => chosen # None /\ versions[chosen[1]] = VersionNew(<<"5", ".", "5", ".", "5">>)

\* closest(3.3.3, [1.1.1, 5.5.5]): the lower candidate comes first and the
\* higher one is returned.
C14_Witness ==
    /\ pc = "searched"
    /\ version = VersionNew(<<"3", ".", "3", ".", "3">>)
    /\ versions = <<VersionNew(<<"1", ".", "1", ".", "1">>), VersionNew(<<"5", ".", "5", ".", "5">>)>>
    /\ chosen = Some(2)

\* C15 as stated: of two candidates tied on length_score and
\* numerical_difference, the one whose part at the first differing position is
\* less than self's is preferred to the one whose part is greater: the
\* greater one is not returned.
C15_PrefersUndershoot ==
    pc = "searched" =>
        \A under, over \in 1..Len(versions) :
            LET underKey == DistanceKeyOf(version, versions[under])
                overKey  == DistanceKeyOf(version, versions[over])
            IN  /\ underKey.length_score = overKey.length_score
                /\ underKey.numerical_difference = overKey.numerical_difference
                /\ underKey.total_order = "Greater"
                /\ overKey.total_order = "Less"
                => chosen # Some(over)

\* C15 as amended: of two candidates tied on length_score and
\* numerical_difference, the one whose part at the first differing position is
\* greater than self's is preferred to the one whose part is less: the lesser
\* one is not returned.
C15_PrefersOvershoot ==
    pc = "searched" =>
        \A under, over \in 1..Len(versions) :
            LET underKey == DistanceKeyOf(version, versions[under])
                overKey  == DistanceKeyOf(version, versions[over])
            IN  /\ underKey.length_score = overKey.length_score
                /\ underKey.numerical_difference = overKey.numerical_difference
                /\ underKey.total_order = "Greater"
                /\ overKey.total_order = "Less"
                => chosen # Some(under)

\* A candidate below self and a candidate above it tie on length_score and
\* numerical_difference, no candidate has a smaller key, the one below comes
\* first, and the one above is returned.
C15_Witness ==
    /\ pc = "searched"
    /\ chosen # None
    /\ DistanceKeyOf(version, versions[chosen[1]]).total_order = "Less"
    /\ \E under \in 1..(chosen[1] - 1) :
           LET underKey == DistanceKeyOf(version, versions[under])
               overKey  == DistanceKeyOf(version, versions[chosen[1]])
           IN  /\ underKey.length_score = overKey.length_score
               /\ underKey.numerical_difference = overKey.numerical_difference
               /\ underKey.total_order = "Greater"

\* The first position (counted from 1) at which the candidate differs from
\* self, missing parts being VersionPart::DEFAULT, and 0 when none does
DivergenceIndex(candidate) ==
    IF DifferentAt(version.parts, candidate.parts) = {} THEN 0
    ELSE CHOOSE i \in DifferentAt(version.parts, candidate.parts) :
             \A j \in DifferentAt(version.parts, candidate.parts) : i <= j

\* The magnitude of the difference of the numbers of self and the candidate
\* at a position
NumberGap(candidate, i) ==
    LET mine   == ZipLongestPair(version.parts, candidate.parts, i)[1].number
        theirs == ZipLongestPair(version.parts, candidate.parts, i)[2].number
    IN  IF mine < theirs THEN theirs - mine ELSE mine - theirs

\* C23: a candidate that first differs from self at a later position beats
\* one that first differs earlier, whatever the number differences, and of
\* two candidates that first differ at the same position the one with the
\* smaller number difference there beats the other: the beaten one is not
\* returned. So closest(1.2.3, [1.0.0, 0.9.0, 1.5.6.3, 1.3.2]) = 1.3.2 and
\* closest(999.999.999, [999.999.998, 1000.0.0]) = 999.999.998, in every
\* order of the candidates.
C23_IndexThenDifference ==
    pc = "searched" =>
        /\ \A later, earlier \in 1..Len(versions) :
               /\ DivergenceIndex(versions[earlier]) # 0
               /\ DivergenceIndex(versions[later]) > DivergenceIndex(versions[earlier])
               => chosen # Some(earlier)
        /\ \A nearer, farther \in 1..Len(versions) :
               /\ DivergenceIndex(versions[nearer]) # 0
               /\ DivergenceIndex(versions[nearer]) = DivergenceIndex(versions[farther])
               /\ NumberGap(versions[nearer], DivergenceIndex(versions[nearer]))
                      < NumberGap(versions[farther], DivergenceIndex(versions[nearer]))
               => chosen # Some(farther)
        /\ /\ version = VersionNew(<<"1", ".", "2", ".", "3">>)
           /\ versions \in Reorderings(<<<<"1", ".", "0", ".", "0">>,
                                       <<"0", ".", "9", ".", "0">>,
                                       <<"1", ".", "5", ".", "6", ".", "3">>,
                                       <<"1", ".", "3", ".", "2">>>>)
           => chosen # None /\ versions[chosen[1]] = VersionNew(<<"1", ".", "3", ".", "2">>)
        /\ /\ version = VersionNew(<<"9", "9", "9", ".", "9", "9", "9", ".", "9", "9", "9">>)
           /\ versions \in Reorderings(<<<<"9", "9", "9", ".", "9", "9", "9", ".", "9", "9", "8">>,
                                       <<"1", "0", "0", "0", ".", "0", ".", "0">>>>)
           => chosen # None
              /\ versions[chosen[1]] = VersionNew(<<"9", "9", "9", ".", "9", "9", "9", ".", "9", "9", "8">>)

\* The candidate returned first differs from self later than a candidate
\* before it in the list, and with a larger number difference; another
\* candidate that first differs where the returned one does, with a larger
\* number difference, is passed over.
C23_Witness ==
    /\ pc = "searched"
    /\ chosen # None
    /\ \E earlier \in 1..(chosen[1] - 1) :
           /\ DivergenceIndex(versions[earlier]) # 0
           /\ DivergenceIndex(versions[earlier]) < DivergenceIndex(versions[chosen[1]])
           /\ NumberGap(versions[earlier], DivergenceIndex(versions[earlier]))
                  < NumberGap(versions[chosen[1]], DivergenceIndex(versions[chosen[1]]))
    /\ \E farther \in 1..Len(versions) :
           /\ DivergenceIndex(versions[farther]) = DivergenceIndex(versions[chosen[1]])
           /\ NumberGap(versions[farther], DivergenceIndex(versions[chosen[1]]))
                  > NumberGap(versions[chosen[1]], DivergenceIndex(versions[chosen[1]]))

\* Are the two candidates tied on the position at which they first differ
\* from self, on the number difference there and on the ordering of self's
\* part and theirs?
TiedUpToSupplement(one, two) ==
    /\ DivergenceIndex(one) # 0
    /\ DivergenceIndex(one) = DivergenceIndex(two)
    /\ NumberGap(one, DivergenceIndex(one)) = NumberGap(two, DivergenceIndex(one))
    /\ VersionPartCmp(ZipLongestPair(version.parts, one.parts, DivergenceIndex(one))[1],
                      ZipLongestPair(version.parts, one.parts, DivergenceIndex(one))[2])
           = VersionPartCmp(ZipLongestPair(version.parts, two.parts, DivergenceIndex(one))[1],
                            ZipLongestPair(version.parts, two.parts, DivergenceIndex(one))[2])

\* The supplement of the candidate's part at the position at which it first
\* differs from self
DivergingSupplement(candidate) ==
    ZipLongestPair(version.parts, candidate.parts, DivergenceIndex(candidate))[2].supplement

\* C24: of two candidates tied on the position of the first difference, the
\* number difference and the ordering of the parts, the one whose part there
\* has the lexicographically greater supplement is preferred: the other one is
\* not returned. So closest(3.0.0, [3.0.0-beta, 3.0.0-alpha.1, 3.0.0-rc.1]) =
\* 3.0.0-rc.1 in every order of the candidates.
C24_PrefersGreaterSupplement ==
    pc = "searched" =>
        /\ \A greater, lesser \in 1..Len(versions) :
               /\ TiedUpToSupplement(versions[greater], versions[lesser])
               /\ StrCmp(DivergingSupplement(versions[greater]),
                         DivergingSupplement(versions[lesser])) = "Greater"
               => chosen # Some(lesser)
        /\ /\ version = VersionNew(<<"3", ".", "0", ".", "0">>)
           /\ versions \in Reorderings(
                  <<<<"3", ".", "0", ".", "0", "-", "b", "e", "t", "a">>,
                    <<"3", ".", "0", ".", "0", "-", "a", "l", "p", "h", "a", ".", "1">>,
                    <<"3", ".", "0", ".", "0", "-", "r", "c", ".", "1">>>>)
           => chosen # None
              /\ versions[chosen[1]] = VersionNew(<<"3", ".", "0", ".", "0", "-", "r", "c", ".", "1">>)

\* closest(3.0.0, [3.0.0-beta, 3.0.0-alpha.1, 3.0.0-rc.1]): the three are tied
\* up to the supplement, the one returned stands last and has the greatest
\* supplement.
C24_Witness ==
    /\ pc = "searched"
    /\ version = VersionNew(<<"3", ".", "0", ".", "0">>)
    /\ Len(versions) = 3
    /\ chosen = Some(3)
    /\ \A j \in 1..2 :
           /\ TiedUpToSupplement(versions[3], versions[j])
           /\ StrCmp(DivergingSupplement(versions[3]), DivergingSupplement(versions[j])) = "Greater"

(***************************************************************************)
(* PackageVersion                                                          *)
(***************************************************************************)

\* DISALLOWED_CHARACTERS
DISALLOWED_CHARACTERS == <<"\\", "/", ":", "*", "?", "\"", "<", ">", "|">>

\* PackageVersion::MAX_CHAR_LENGTH
MAX_CHAR_LENGTH == 128

\* [char; 9]::contains
DisallowedContains(char) ==
    \E i \in 1..Len(DISALLOWED_CHARACTERS) : DISALLOWED_CHARACTERS[i] = char

\* str::len: the length in bytes of UTF-8 (a character takes 1 to 4 bytes)
StrLen(s) ==
    LET bytes(n) == n * Cardinality({i \in 1..Len(s) : LenUtf8(s[i]) = n})
    IN  bytes(1) + bytes(2) + bytes(3) + bytes(4)

\* The position of the first character that the closure of try_fold rejects
\* (a disallowed or a control character), 0 when it rejects none
FirstRejected(input) ==
    IF \E i \in 1..Len(input) : DisallowedContains(input[i]) \/ IsControl(input[i])
    THEN CHOOSE i \in 1..Len(input) :
             /\ DisallowedContains(input[i]) \/ IsControl(input[i])
             /\ \A j \in 1..(i - 1) : ~(DisallowedContains(input[j]) \/ IsControl(input[j]))
    ELSE 0

\* A slip of the count: the bytes of the string, not its characters
TryFoldByteCount(input) ==
    IF FirstRejected(input) # 0
    THEN Err(<<"InvalidCharacter", input[FirstRejected(input)]>>)
    ELSE Ok(StrLen(input))

\* version.chars().try_fold(0, ..): the fold ends with an error at the first
\* character the closure rejects, and otherwise has added 1 for each character
TryFoldCharCount(input) ==
    IF FirstRejected(input) # 0
    THEN Err(<<"InvalidCharacter", input[FirstRejected(input)]>>)
    ELSE Ok(Len(input))

\* PackageVersion::new; the PackageVersion is the Version it wraps
\* (repr(transparent))
PackageVersionNew(input) ==
    IF input = <<>> THEN Err(<<"Empty">>)
    ELSE LET char_count == TryFoldCharCount(input)
         IN  IF char_count.tag = "Err" THEN char_count
             ELSE IF char_count.value > MAX_CHAR_LENGTH THEN Err(<<"TooLong">>)
             ELSE Ok(VersionNew(input))

\* Version::as_str, which PackageVersion::as_str returns
VersionAsStr(v) == v.raw

(***************************************************************************)
(* SpecPackageVersion: a string is drawn and handed to PackageVersion::new *)
(***************************************************************************)

\* The characters of the short strings
PackageVersionChars == {"1", ".", " ", "v", "/", ":", "NUL", "CRAB"}

\* The largest length of the short strings
MaxShort == 3

\* By how many characters the long strings go beyond MAX_CHAR_LENGTH
MaxExcess == 1

\* Every short string, and long strings as the tests build them: a character
\* repeated up to about MAX_CHAR_LENGTH times, then nothing, a disallowed
\* character or a control character
PackageVersionTexts ==
    UNION { [1..n -> PackageVersionChars] : n \in 0..MaxShort }
    \cup { Repeat(char, n) \o last :
             char \in {"1", "CRAB"},
             n \in (MAX_CHAR_LENGTH - 1)..(MAX_CHAR_LENGTH + MaxExcess),
             last \in {<<>>, <<"?">>, <<"DEL">>, <<"|", "NUL">>} }

InitPackageVersion ==
    /\ pc = "text"
    /\ text \in PackageVersionTexts
    /\ outcome = "none"
    /\ VersionUnused /\ OptimizeUnused /\ MergeUnused /\ ClosestUnused /\ PartUnused /\ SwitchesUnused /\ IdentifierUnused /\ MarketsUnused /\ ParseUnused

\* PackageVersion::new(text)
NewPackageVersion ==
    /\ pc = "text"
    /\ outcome' = PackageVersionNew(text)
    /\ pc' = "validated"
    /\ UNCHANGED <<text, exceptPackageVersionVars>>

NextPackageVersion == NewPackageVersion

SpecPackageVersion == InitPackageVersion /\ [][NextPackageVersion]_vars

----
\* Is the character a control character or one of \ / : * ? " < > | ?
Forbidden(char) ==
    IsControl(char) \/ char \in {"\\", "/", ":", "*", "?", "\"", "<", ">", "|"}

\* C16: new returns Err(Empty) iff the string is empty; otherwise
\* Err(InvalidCharacter(c)) for the first c of the string that is a control
\* character or disallowed, however long the string is; otherwise Err(TooLong)
\* iff the string has more than 128 characters; otherwise Ok. An error comes
\* with no PackageVersion.
C16_NewValidates ==
    pc = "validated" =>
        /\ outcome.tag \in {"Ok", "Err"}
        /\ outcome.tag = "Err" => DOMAIN outcome = {"tag", "error"}
        /\ outcome = Err(<<"Empty">>) <=> text = <<>>
        /\ text # <<>> =>
               IF \E i \in 1..Len(text) : Forbidden(text[i])
               THEN LET first == CHOOSE i \in 1..Len(text) :
                                     Forbidden(text[i]) /\ \A j \in 1..(i - 1) : ~Forbidden(text[j])
                    IN  outcome = Err(<<"InvalidCharacter", text[first]>>)
               ELSE IF Len(text) > 128
               THEN outcome = Err(<<"TooLong">>)
               ELSE outcome.tag = "Ok"

\* A string of exactly 128 characters that takes more than 128 bytes, and more
\* than 128 units of UTF-16, is accepted.
C16_Witness ==
    /\ pc = "validated"
    /\ Len(text) = 128
    /\ StrLen(text) > 128
    /\ \A i \in 1..Len(text) : LenUtf16(text[i]) = 2
    /\ outcome.tag = "Ok"

\* C17: the string held by every PackageVersion that new returns is not empty,
\* has at most 128 characters and holds no control or disallowed character.
C17_OkHoldsInvariants ==
    pc = "validated" /\ outcome.tag = "Ok" =>
        LET held == VersionAsStr(outcome.value)
        IN  /\ held # <<>>
            /\ Len(held) <= 128
            /\ \A i \in 1..Len(held) : ~Forbidden(held[i])

(***************************************************************************)
(* SpecPrefix: Version::new on strings with and without a prefix           *)
(***************************************************************************)

\* The characters of the strings
PrefixChars == {"v", "f", "1", "2", ".", " "}

\* The largest length of the strings
MaxPrefixLen == 4

\* The pairs of tests::version_equality that differ in a prefix, and the pair
\* of two different prefixes
PrefixPairs ==
    { <<<<"v", "2", ".", "4", ".", "2">>, <<"2", ".", "4", ".", "2">>>>,
      <<<<"V", "e", "r", "s", "i", "o", "n", " ", "1", ".", "0">>,
        <<"1", ".", "0">>>>,
      <<<<"f", "o", "o", "1">>, <<"b", "a", "r", "1">>>> }

InitPrefix ==
    /\ pc = "input"
    /\ \/ /\ sa \in UNION { [1..n -> PrefixChars] : n \in 0..MaxPrefixLen }
          /\ sb = sa
       \/ \E pair \in PrefixPairs : sa = pair[1] /\ sb = pair[2]
    /\ va = "none"
    /\ vb = "none"
    /\ OptimizeUnused /\ MergeUnused /\ ClosestUnused /\ PackageVersionUnused /\ PartUnused /\ SwitchesUnused /\ IdentifierUnused /\ MarketsUnused /\ ParseUnused

NextPrefix == NewPair

SpecPrefix == InitPrefix /\ [][NextPrefix]_vars

----
\* The least element of a non-empty set of positions
Least(positions) == CHOOSE i \in positions : \A j \in positions : i <= j

\* C18: new, after trimming, removes every character before the first ASCII
\* digit exactly when there is a digit and either no `.` or the digit comes
\* before the first `.`; otherwise nothing is removed. Hence new("v2.4.2") ==
\* new("2.4.2"), new("Version 1.0") == new("1.0") and new("foo1") == new("bar1").
C18_StripsPrefix ==
    pc = "parsed" =>
        LET trimmed == Trim(sa)
            digits  == {i \in 1..Len(trimmed) : trimmed[i] \in {"0", "1", "2", "3", "4", "5", "6", "7", "8", "9"}}
            dots    == {i \in 1..Len(trimmed) : trimmed[i] = "."}
            strips  == digits # {} /\ (dots = {} \/ Least(digits) < Least(dots))
            kept    == IF strips THEN SubSeq(trimmed, Least(digits), Len(trimmed)) ELSE trimmed
        IN  /\ VersionAsStr(va) = kept
            /\ va = VersionNew(kept)
            /\ <<sa, sb>> \in PrefixPairs => VersionEq(va, vb) /\ VersionCmp(va, vb) = "Equal"

\* A prefix is removed from a string that holds a `.` after its first digit,
\* and the version equals the one built without the prefix.
C18_Witness ==
    /\ pc = "parsed"
    /\ sa = <<"v", "2", ".", "4", ".", "2">>
    /\ VersionAsStr(va) = <<"2", ".", "4", ".", "2">>
    /\ VersionEq(va, vb)

(***************************************************************************)
(* SpecPart: three VersionParts are built, then compared pair by pair      *)
(***************************************************************************)

\* The largest number of a part
MaxNumber == 2

\* The supplements of the parts
Supplements == { <<>>, <<"a">>, <<"b">>, <<"a", "b">>, <<"r", "c">>, <<"-", "r", "c">> }

\* The segments that parts are parsed from, as in tests::version_part_comparison
Segments == { <<"3">>, <<"3", "r", "c">>, <<"1", "-", "r", "c">>, <<" ", "3", " ">>, <<"a", "l", "p", "h", "a">> }

\* The parts: built by VersionPart::new, or parsed from a segment
PartValues ==
    { VersionPartNew(number, supplement) : number \in 0..MaxNumber, supplement \in Supplements }
        \cup { VersionPartFrom(segment) : segment \in Segments }

InitPart ==
    /\ pc = "parts"
    /\ triple \in [1..3 -> PartValues]
    /\ compared = "none"
    /\ VersionUnused /\ OptimizeUnused /\ MergeUnused /\ ClosestUnused /\ PackageVersionUnused /\ SwitchesUnused /\ IdentifierUnused /\ MarketsUnused /\ ParseUnused

\* part.cmp(other), part.partial_cmp(other) and part == other for every pair
ComparePart ==
    /\ pc = "parts"
    /\ compared' = [cmp         |-> [i \in 1..3 |-> [j \in 1..3 |-> VersionPartCmp(triple[i], triple[j])]],
                    partial_cmp |-> [i \in 1..3 |-> [j \in 1..3 |-> Some(VersionPartCmp(triple[i], triple[j]))]],
                    eq          |-> [i \in 1..3 |-> [j \in 1..3 |-> VersionPartEq(triple[i], triple[j])]]]
    /\ pc' = "compared"
    /\ UNCHANGED <<triple, exceptPartVars>>

NextPart == ComparePart

SpecPart == InitPart /\ [][NextPart]_vars

----
\* Is s before t in the lexicographic order of strings?
LexLess(s, t) ==
    \E k \in 1..Len(t) :
        /\ \A i \in 1..(k - 1) : i <= Len(s) /\ s[i] = t[i]
        /\ k > Len(s) \/ (k - 1 < Len(s) /\ Code[s[k]] < Code[t[k]])

\* The ordering that C19 states for two parts
StatedOrdering(part, other) ==
    IF part.number < other.number THEN "Less"
    ELSE IF part.number > other.number THEN "Greater"
    ELSE IF part.supplement = <<>> /\ other.supplement = <<>> THEN "Equal"
    ELSE IF part.supplement = <<>> THEN "Greater"
    ELSE IF other.supplement = <<>> THEN "Less"
    ELSE IF LexLess(part.supplement, other.supplement) THEN "Less"
    ELSE IF LexLess(other.supplement, part.supplement) THEN "Greater"
    ELSE "Equal"

\* C19: parts are ordered by number first; for equal numbers an empty
\* supplement is greater than a non-empty one, two empty ones are equal and
\* two non-empty ones are ordered as strings (3 > 3rc, 1.0-rc < 1.0). The
\* ordering is total and cmp is Equal exactly when the parts are equal.
C19_PartOrdering ==
    pc = "compared" =>
        /\ \A i, j \in 1..3 :
               /\ compared.cmp[i][j] = StatedOrdering(triple[i], triple[j])
               /\ compared.partial_cmp[i][j] = Some(compared.cmp[i][j])
               /\ compared.cmp[i][j] = "Equal" <=> compared.eq[i][j]
               /\ compared.eq[i][j] <=> triple[i] = triple[j]
               /\ compared.cmp[i][j] = "Less" <=> compared.cmp[j][i] = "Greater"
               /\ compared.cmp[i][j] = "Equal" <=> compared.cmp[j][i] = "Equal"
        /\ \A i, j, k \in 1..3 :
               compared.cmp[i][j] # "Greater" /\ compared.cmp[j][k] # "Greater"
                   => /\ compared.cmp[i][k] # "Greater"
                      /\ compared.cmp[i][k] = "Equal" =>
                             compared.cmp[i][j] = "Equal" /\ compared.cmp[j][k] = "Equal"
        /\ triple[1] = VersionPartFrom(<<"3">>) /\ triple[2] = VersionPartFrom(<<"3", "r", "c">>)
               => compared.cmp[1][2] = "Greater"
        /\ VersionCmp(VersionNew(<<"1", ".", "0", "-", "r", "c">>), VersionNew(<<"1", ".", "0">>)) = "Less"

\* Three parts of the same number: two with supplements, in the order of the
\* strings, then one without; each is less than the next and the first is
\* less than the last.
C19_Witness ==
    /\ pc = "compared"
    /\ triple[1].number = triple[2].number
    /\ triple[2].number = triple[3].number
    /\ triple[1].supplement # <<>>
    /\ triple[2].supplement # <<>>
    /\ triple[3].supplement = <<>>
    /\ compared.cmp[1][2] = "Less"
    /\ compared.cmp[2][3] = "Less"
    /\ compared.cmp[1][3] = "Less"

(***************************************************************************)
(* SpecSwitches: an InstallerSwitches is built, then asked whether it is   *)
(* empty                                                                   *)
(***************************************************************************)

\* The InstallerSwitches: every switch absent, or present with one part
SwitchesValues ==
    [silent : {None, Some(<<SLASH_S>>)}, silent_with_progress : {None, Some(<<SLASH_S>>)},
     interactive : {None, Some(<<SLASH_S>>)}, install_location : {None, Some(<<SLASH_S>>)},
     log : {None, Some(<<SLASH_S>>)}, upgrade : {None, Some(<<SLASH_S>>)},
     custom : {None, Some(<<DASH_C>>)}, repair : {None, Some(<<SLASH_S>>)}]

InitSwitches ==
    /\ pc = "switches"
    /\ installerSwitches \in SwitchesValues
    /\ isEmpty = "none"
    /\ VersionUnused /\ OptimizeUnused /\ MergeUnused /\ ClosestUnused /\ PackageVersionUnused /\ PartUnused /\ IdentifierUnused /\ MarketsUnused /\ ParseUnused

\* switches.is_empty()
IsEmpty ==
    /\ pc = "switches"
    /\ isEmpty' = SwitchesIsEmpty(installerSwitches)
    /\ pc' = "asked"
    /\ UNCHANGED <<installerSwitches, exceptSwitchesVars>>

NextSwitches == IsEmpty

SpecSwitches == InitSwitches /\ [][NextSwitches]_vars

----
\* C20: is_empty returns true exactly when none of the eight switches (silent,
\* silent_with_progress, interactive, install_location, log, upgrade, custom,
\* repair) is present.
C20_EmptyIffNoSwitch ==
    pc = "asked" =>
        (isEmpty <=>
            \A switch \in {"silent", "silent_with_progress", "interactive", "install_location",
                           "log", "upgrade", "custom", "repair"} :
                installerSwitches[switch] = None)

(***************************************************************************)
(* PackageIdentifier                                                       *)
(***************************************************************************)

\* PackageIdentifier::MAX_CHAR_LENGTH
IDENTIFIER_MAX_CHAR_LENGTH == 128

\* PackageIdentifier::MIN_PARTS
MIN_PARTS == 2

\* PackageIdentifier::MAX_PARTS
MAX_PARTS == 8

\* PackageIdentifier::MAX_PART_CHAR_LENGTH
MAX_PART_CHAR_LENGTH == 32

\* The closure of the inner try_fold rejects a disallowed, a control and a
\* whitespace character: the position of the first one in the part, 0 for none
FirstRejectedOfPart(segment) ==
    IF \E i \in 1..Len(segment) :
           DisallowedContains(segment[i]) \/ IsControl(segment[i]) \/ IsWhitespace(segment[i])
    THEN CHOOSE i \in 1..Len(segment) :
             /\ DisallowedContains(segment[i]) \/ IsControl(segment[i]) \/ IsWhitespace(segment[i])
             /\ \A j \in 1..(i - 1) :
                    ~(DisallowedContains(segment[j]) \/ IsControl(segment[j]) \/ IsWhitespace(segment[j]))
    ELSE 0

\* part.chars().try_fold(0, ..): the number of characters of the part, or the
\* error of its first rejected character
PartCharCount(segment) ==
    IF FirstRejectedOfPart(segment) # 0
    THEN Err(<<"InvalidCharacter", segment[FirstRejectedOfPart(segment)]>>)
    ELSE Ok(Len(segment))

\* identifier_str.split('.').try_fold((0, 0), ..) from the i-th part on: every
\* part adds its characters and '.'.len_utf8() to the first count, and 1 to
\* the second
RECURSIVE TryFoldParts(_, _, _, _)
TryFoldParts(segments, i, total_char_count, part_count) ==
    IF i > Len(segments) THEN Ok(<<total_char_count, part_count>>)
    ELSE IF segments[i] = <<>> THEN Err(<<"EmptyPart">>)
    ELSE IF PartCharCount(segments[i]).tag = "Err" THEN PartCharCount(segments[i])
    ELSE IF PartCharCount(segments[i]).value > MAX_PART_CHAR_LENGTH THEN Err(<<"PartTooLong">>)
    ELSE TryFoldParts(segments, i + 1,
             total_char_count + PartCharCount(segments[i]).value + LenUtf8("."),
             part_count + 1)

\* PackageIdentifier::new; the PackageIdentifier is the string it wraps
\* (repr(transparent))
PackageIdentifierNew(input) ==
    IF input = <<>> THEN Err(<<"Empty">>)
    ELSE LET counts == TryFoldParts(Split(input, "."), 1, 0, 0)
         IN  IF counts.tag = "Err" THEN counts
             ELSE IF counts.value[1] > IDENTIFIER_MAX_CHAR_LENGTH THEN Err(<<"TooLong">>)
             ELSE IF ~(counts.value[2] >= MIN_PARTS /\ counts.value[2] <= MAX_PARTS)
             THEN Err(<<"InvalidPartCount">>)
             ELSE Ok(input)

(***************************************************************************)
(* SpecIdentifier: a string is drawn and handed to PackageIdentifier::new  *)
(***************************************************************************)

\* The lengths of the parts of the long identifiers
PartLengths == {1, 30, 31, 32, 33}

\* The largest number of parts of the long identifiers
MaxIdentifierParts == 4

\* The largest length of the short identifiers
MaxShortIdentifier == 3

\* itertools::intersperse(.., ".").collect::<String>()
RECURSIVE Intersperse(_)
Intersperse(segments) ==
    IF Len(segments) = 0 THEN <<>>
    ELSE IF Len(segments) = 1 THEN segments[1]
    ELSE segments[1] \o <<".">> \o Intersperse(Tail(segments))

\* Long identifiers as tests::too_long_package_identifier builds them, parts
\* of a repeated "a" joined by ".", and every short string
IdentifierTexts ==
    { Intersperse([i \in 1..Len(lengths) |-> Repeat("a", lengths[i])]) :
        lengths \in UNION { [1..n -> PartLengths] : n \in 1..MaxIdentifierParts } }
    \cup UNION { [1..n -> {"a", ".", "/", " "}] : n \in 0..MaxShortIdentifier }

InitIdentifier ==
    /\ pc = "identifier"
    /\ identifier \in IdentifierTexts
    /\ verdict = "none"
    /\ VersionUnused /\ OptimizeUnused /\ MergeUnused /\ ClosestUnused /\ PackageVersionUnused /\ PartUnused /\ SwitchesUnused /\ MarketsUnused /\ ParseUnused

\* PackageIdentifier::new(identifier)
NewPackageIdentifier ==
    /\ pc = "identifier"
    /\ verdict' = PackageIdentifierNew(identifier)
    /\ pc' = "identified"
    /\ UNCHANGED <<identifier, exceptIdentifierVars>>

NextIdentifier == NewPackageIdentifier

SpecIdentifier == InitIdentifier /\ [][NextIdentifier]_vars

----
\* Are the parts of the string, 2 to 8 of them, each non-empty, at most 32
\* characters long and free of disallowed characters?
WellFormedParts(s) ==
    LET dots   == {i \in 1..Len(s) : s[i] = "."}
        bounds == {0, Len(s) + 1} \cup dots
    IN  /\ Cardinality(dots) + 1 >= 2
        /\ Cardinality(dots) + 1 <= 8
        /\ \A lo, hi \in bounds :
               lo < hi /\ (\A mid \in bounds : ~(lo < mid /\ mid < hi))
                   => hi - lo - 1 >= 1 /\ hi - lo - 1 <= 32
        /\ \A i \in 1..Len(s) : ~Forbidden(s[i]) /\ ~IsWhitespace(s[i])

\* C21: new returns TooLong only for an identifier of more than 128
\* characters, and an identifier of well-formed parts is rejected as TooLong
\* exactly when it has more than 128 characters, one of exactly 128 being
\* accepted.
C21_TooLongAbove128 ==
    pc = "identified" =>
        /\ verdict = Err(<<"TooLong">>) => Len(identifier) > 128
        /\ WellFormedParts(identifier) =>
               IF Len(identifier) > 128
               THEN verdict = Err(<<"TooLong">>)
               ELSE verdict = Ok(identifier)

(***************************************************************************)
(* Market and Markets                                                      *)
(***************************************************************************)

\* Market::LEN
LEN == 2

\* Markets::MAX_ITEMS
MAX_ITEMS == 256

\* u8::is_ascii_uppercase; a byte of a character of several bytes is not ASCII
IsAsciiUppercase(c) == Code[c] >= 65 /\ Code[c] <= 90

\* Market::new: parse::<heapless::String<2>> fails on a string of more than
\* 2 bytes, then the length in bytes must be 2 and every byte an ASCII
\* uppercase letter
MarketNew(input) ==
    IF StrLen(input) > LEN THEN Err("InvalidLength")
    ELSE IF StrLen(input) # LEN THEN Err("InvalidLength")
    ELSE IF ~(\A i \in 1..Len(input) : IsAsciiUppercase(input[i])) THEN Err("InvalidCharacter")
    ELSE Ok(input)

\* markets.into_iter().map(Market::new).collect::<Result<BTreeSet<_>, _>>()?:
\* the error of the first item that Market::new rejects, converted by
\* MarketsError::from, and otherwise the set of the items
CollectMarkets(items) ==
    IF \E i \in 1..Len(items) : MarketNew(items[i]).tag = "Err"
    THEN LET first == CHOOSE i \in 1..Len(items) :
                          /\ MarketNew(items[i]).tag = "Err"
                          /\ \A j \in 1..(i - 1) : MarketNew(items[j]).tag = "Ok"
         IN  Err(<<"Market", MarketNew(items[first]).error>>)
    ELSE Ok({items[i] : i \in 1..Len(items)})

\* Markets::new_allowed
NewAllowed == [kind |-> "Allowed", set |-> {}]

\* Markets::new_excluded
NewExcluded == [kind |-> "Excluded", set |-> {}]

\* Markets::allowed_from_iter
AllowedFromIter(items) ==
    IF CollectMarkets(items).tag = "Err" THEN CollectMarkets(items)
    ELSE IF Cardinality(CollectMarkets(items).value) > MAX_ITEMS THEN Err(<<"TooManyMarkets">>)
    ELSE Ok([kind |-> "Allowed", set |-> CollectMarkets(items).value])

\* Markets::excluded_from_iter
ExcludedFromIter(items) ==
    IF CollectMarkets(items).tag = "Err" THEN CollectMarkets(items)
    ELSE IF Cardinality(CollectMarkets(items).value) > MAX_ITEMS THEN Err(<<"TooManyMarkets">>)
    ELSE Ok([kind |-> "Excluded", set |-> CollectMarkets(items).value])

\* A slip of add: the number of markets is not looked at
MarketsAddUnbounded(value, input) ==
    IF MarketNew(input).tag = "Err"
    THEN [returns |-> Err(<<"Market", MarketNew(input).error>>), value |-> value]
    ELSE [returns |-> Ok(input \notin value.set),
          value   |-> [value EXCEPT !.set = @ \cup {input}]]

\* Markets::add: what it returns and the Markets value it leaves. A full set
\* returns TooManyMarkets before the market is looked at; BTreeSet::insert
\* returns whether the value was newly inserted.
MarketsAdd(value, input) ==
    IF Cardinality(value.set) = MAX_ITEMS
    THEN [returns |-> Err(<<"TooManyMarkets">>), value |-> value]
    ELSE IF MarketNew(input).tag = "Err"
    THEN [returns |-> Err(<<"Market", MarketNew(input).error>>), value |-> value]
    ELSE [returns |-> Ok(input \notin value.set),
          value   |-> [value EXCEPT !.set = @ \cup {input}]]

\* Markets::remove: BTreeSet::remove returns whether the value was present
MarketsRemove(value, input) ==
    [returns |-> input \in value.set, value |-> [value EXCEPT !.set = @ \ {input}]]

\* Markets::clear
MarketsClear(value) == [value EXCEPT !.set = {}]

\* Markets::len
MarketsLen(value) == Cardinality(value.set)

(***************************************************************************)
(* SpecMarkets: a Markets value is built by new_allowed, new_excluded or a *)
(* successful allowed_from_iter or excluded_from_iter, then add, remove    *)
(* and clear are called on it.                                             *)
(***************************************************************************)

\* The market at a position of the enumeration "AA", "AB", .., "ZZ" that
\* tests::too_many_markets iterates (position 0 is "AA")
MarketAt(k) == <<AsciiLow[34 + (k \div 26)], AsciiLow[34 + (k % 26)]>>

\* The first n markets of that enumeration
FirstMarkets(n) == [i \in 1..n |-> MarketAt(i - 1)]

\* The iterables handed to the from_iter constructors: runs of the
\* enumeration that are short or end around MAX_ITEMS, a run that repeats a
\* market, and runs with an item that is no market
MarketIterables ==
    { FirstMarkets(n) : n \in {0, 1, 2, MAX_ITEMS - 1, MAX_ITEMS, MAX_ITEMS + 1} }
    \cup { FirstMarkets(MAX_ITEMS) \o <<MarketAt(0)>>,
           <<MarketAt(0), <<"u", "s">>>>, <<<<"U">>, <<"U", "S", "A">>>> }

\* The strings handed to add and remove: markets in and out of the runs
\* ("AA", "JU", "JV", "JW" are those at positions 0, 254, 255 and 256) and
\* strings that are no market
MarketInputs ==
    { MarketAt(0), MarketAt(MAX_ITEMS - 2), MarketAt(MAX_ITEMS - 1), MarketAt(MAX_ITEMS),
      <<"u", "s">>, <<"U">>, <<"U", "S", "A">>, <<"CRAB">>, <<>> }

\* The largest number of calls of add, remove and clear in a row
MaxMarketsCalls == 2

\* The Markets values that the constructors build
ConstructedMarkets ==
    {NewAllowed, NewExcluded}
    \cup { AllowedFromIter(items).value :
             items \in {it \in MarketIterables : AllowedFromIter(it).tag = "Ok"} }
    \cup { ExcludedFromIter(items).value :
             items \in {it \in MarketIterables : ExcludedFromIter(it).tag = "Ok"} }

InitMarkets ==
    /\ pc = "markets"
    /\ markets \in ConstructedMarkets
    /\ previous = "none"
    /\ returned = "none"
    /\ steps = 0
    /\ VersionUnused /\ OptimizeUnused /\ MergeUnused /\ ClosestUnused /\ PackageVersionUnused /\ PartUnused /\ SwitchesUnused /\ IdentifierUnused /\ ParseUnused

\* markets.add(input)
Add ==
    /\ pc = "markets"
    /\ steps < MaxMarketsCalls
    /\ \E input \in MarketInputs :
           /\ markets' = MarketsAdd(markets, input).value
           /\ returned' = [call |-> "add", market |-> input,
                           returns |-> MarketsAdd(markets, input).returns]
    /\ previous' = markets
    /\ steps' = steps + 1
    /\ UNCHANGED <<pc, exceptMarketsVars>>

\* markets.remove(input)
Remove ==
    /\ pc = "markets"
    /\ steps < MaxMarketsCalls
    /\ \E input \in MarketInputs :
           /\ markets' = MarketsRemove(markets, input).value
           /\ returned' = [call |-> "remove", market |-> input,
                           returns |-> MarketsRemove(markets, input).returns]
    /\ previous' = markets
    /\ steps' = steps + 1
    /\ UNCHANGED <<pc, exceptMarketsVars>>

\* markets.clear()
Clear ==
    /\ pc = "markets"
    /\ steps < MaxMarketsCalls
    /\ markets' = MarketsClear(markets)
    /\ returned' = [call |-> "clear", market |-> <<>>, returns |-> "unit"]
    /\ previous' = markets
    /\ steps' = steps + 1
    /\ UNCHANGED <<pc, exceptMarketsVars>>

NextMarkets == Add \/ Remove \/ Clear

SpecMarkets == InitMarkets /\ [][NextMarkets]_vars

----
\* Has add just been called with a string that Market::new accepts?
AddedAMarket == steps > 0 /\ returned.call = "add" /\ MarketNew(returned.market).tag = "Ok"

\* C22: add returns Ok(true) and inserts the market when no equal market was
\* present (and the set had room for it), returns Ok(false) and leaves the
\* set unchanged whenever an equal market is present, a set of 256 markets
\* included, and returns TooManyMarkets only when the market is a new one for
\* a set that already holds 256 markets.
C22_AddContract ==
    AddedAMarket =>
        /\ returned.market \notin previous.set /\ MarketsLen(previous) < 256 =>
               returned.returns = Ok(TRUE) /\ markets.set = previous.set \cup {returned.market}
        /\ returned.market \in previous.set =>
               returned.returns = Ok(FALSE) /\ markets = previous
        /\ returned.returns = Err(<<"TooManyMarkets">>) =>
               returned.market \notin previous.set /\ MarketsLen(previous) = 256

\* C30: after any sequence of add, remove and clear calls on a constructed
\* Markets value, the set holds at most 256 markets, every market in it is
\* exactly 2 ASCII uppercase characters, and an add call that returned Err
\* left the set and its Allowed or Excluded kind as they were.
C30_MarketsStayValid ==
    pc = "markets" =>
        /\ MarketsLen(markets) <= 256
        /\ \A m \in markets.set : Len(m) = 2 /\ \A i \in 1..2 : IsAsciiUppercase(m[i])
        /\ (steps > 0 /\ returned.call = "add" /\ returned.returns.tag = "Err") =>
               markets = previous

\* A set of 256 markets has refused one more market and still holds 256.
C30_Witness ==
    /\ AddedAMarket
    /\ returned.market \notin previous.set
    /\ returned.returns = Err(<<"TooManyMarkets">>)
    /\ MarketsLen(markets) = 256
    /\ markets = previous

(***************************************************************************)
(* SpecParse: a string is handed to VersionPart::from                      *)
(***************************************************************************)

\* The characters of the short strings
ParseChars == {"0", "3", "r", " ", "-"}

\* The largest length of the short strings
MaxParseLen == 3

\* u64::MAX + 1 = 18446744073709551616, as its decimal digits
U64OverflowDigits == SubSeq(U64MaxDigits, 1, Len(U64MaxDigits) - 1) \o <<"6">>

\* The strings handed to from: every short string, the strings of the tests
\* and of the documentation, and digit runs around 20 digits: u64::MAX + 1
\* alone, with leading zeros, with a supplement and within whitespace, a run
\* of 20 nines, a 1 and 20 zeros, and a small number behind 19 and 21 zeros
ParseTexts ==
    UNION { [1..n -> ParseChars] : n \in 0..MaxParseLen }
    \cup { <<"a", "l", "p", "h", "a">>, <<"3", "r", "c">>, <<"0", "0", "3">>,
           <<"1", "0", "-", "b", "e", "t", "a">>, <<"TAB", "7", " ">>,
           U64OverflowDigits,
           <<"0", "0">> \o U64OverflowDigits,
           U64OverflowDigits \o <<"r", "c">>,
           <<" ">> \o U64OverflowDigits \o <<" ">>,
           Repeat("9", Len(U64MaxDigits)),
           <<"1">> \o Repeat("0", Len(U64MaxDigits)),
           Repeat("0", Len(U64MaxDigits) - 1) \o <<"3">>,
           Repeat("0", Len(U64MaxDigits) + 1) \o <<"3">>,
           Repeat("0", Len(U64MaxDigits) + 1) \o <<"3", "r", "c">> }

InitParse ==
    /\ pc = "fragment"
    /\ fragment \in ParseTexts
    /\ parsed = "none"
    /\ VersionUnused /\ OptimizeUnused /\ MergeUnused /\ ClosestUnused /\ PackageVersionUnused /\ PartUnused /\ SwitchesUnused /\ IdentifierUnused /\ MarketsUnused

\* VersionPart::from(fragment)
From ==
    /\ pc = "fragment"
    /\ parsed' = VersionPartFrom(fragment)
    /\ pc' = "parsed"
    /\ UNCHANGED <<fragment, exceptParseVars>>

NextParse == From

SpecParse == InitParse /\ [][NextParse]_vars

----
\* The length of the maximal leading run of ASCII digits of a string
LeadingDigits(s) == Cardinality({i \in 1..Len(s) : \A j \in 1..i : IsAsciiDigit(s[j])})

\* The number of zeros a run of digits starts with
LeadingZeros(run) == Cardinality({i \in 1..Len(run) : \A j \in 1..i : run[j] = "0"})

\* Is the value of a run of digits above 2^64 - 1 = 18446744073709551615?
AboveU64Max(run) ==
    LET significant == SubSeq(run, LeadingZeros(run) + 1, Len(run))
    IN  \/ Len(significant) > 20
        \/ /\ Len(significant) = 20
           /\ \E i \in 1..20 :
                  /\ Code[significant[i]] > Code[U64MaxDigits[i]]
                  /\ \A j \in 1..(i - 1) : significant[j] = U64MaxDigits[j]

\* The value of a run of digits, read from the left
RECURSIVE ValueFromLeft(_, _)
ValueFromLeft(run, sofar) ==
    IF run = <<>> THEN sofar
    ELSE ValueFromLeft(Tail(run), 10 * sofar + (Code[Head(run)] - 48))

\* C25: parsing a VersionPart never fails: with the string trimmed, number is
\* the value of its maximal leading run of ASCII digits, or 0 when the run is
\* empty or its value is above 2^64 - 1, and supplement is everything behind
\* the run. So "3rc" gives (3, "rc"), "003" gives (3, ""), "alpha" gives
\* (0, "alpha") and a run of digits above 2^64 - 1 gives (0, "").
C25_ParseNeverFails ==
    pc = "parsed" =>
        LET trimmed == Trim(fragment)
            run     == SubSeq(trimmed, 1, LeadingDigits(trimmed))
        IN  /\ parsed.supplement = SubSeq(trimmed, LeadingDigits(trimmed) + 1, Len(trimmed))
            /\ parsed.number =
                   IF run = <<>> \/ AboveU64Max(run) THEN 0
                   ELSE ValueFromLeft(SubSeq(run, LeadingZeros(run) + 1, Len(run)), 0)
            /\ fragment = <<"3", "r", "c">> => parsed = VersionPartNew(3, <<"r", "c">>)
            /\ fragment = <<"0", "0", "3">> => parsed = VersionPartNew(3, <<>>)
            /\ fragment = <<"a", "l", "p", "h", "a">> =>
                   parsed = VersionPartNew(0, <<"a", "l", "p", "h", "a">>)
            /\ fragment = U64OverflowDigits => parsed = VersionPartNew(0, <<>>)

\* A small number behind more zeros than u64::MAX has digits is parsed to the
\* number, with its supplement.
C25_Witness ==
    /\ pc = "parsed"
    /\ Len(fragment) > Len(U64MaxDigits) + 1
    /\ parsed = VersionPartNew(3, <<"r", "c">>)

====
